---- MODULE Spec2Model ----
(***************************************************************************)
(* A model of the coachv2 ingestion-and-detection pipeline:                *)
(*   app/utils/odds.py                   the probability converter         *)
(*   app/services/movement/detector.py   the reverse-line-move detector    *)
(*   app/worker/tasks.py                 the snapshot normalizer and store *)
(*   app/services/odds/client.py, providers/theoddsapi.py  the gateway     *)
(*                                                                         *)
(* Conventions.  A Python Optional is a set with at most one element:      *)
(* None is {} and a value v is {v}.  Times are whole minutes.  A Decimal   *)
(* in [0, 1) is the sequence of its digits after the decimal point.        *)
(***************************************************************************)
EXTENDS Integers, Sequences, FiniteSets, TLC

None == {}
Some(x) == {x}
The(o) == CHOOSE x \in o : TRUE

(***************************************************************************)
(* Decimal arithmetic of app/utils/odds.py (getcontext().prec = 12,        *)
(* rounding ROUND_HALF_EVEN, the decimal module's default).                *)
(***************************************************************************)

\* getcontext().prec
DecimalPrec == 12

RECURSIVE LeadingZeros(_, _)
\* The number of zeros between the decimal point and the first significant
\* digit of num/den, for 0 < num < den.
LeadingZeros(num, den) ==
    IF num * 10 >= den THEN 0 ELSE 1 + LeadingZeros(num * 10, den)

RECURSIVE LongDiv(_, _, _)
\* The first n digits of rem/den after the decimal point and the remainder
\* left after them, for 0 <= rem < den: <<digits, remainder>>.
LongDiv(rem, den, n) ==
    IF n = 0 THEN <<(<< >>), rem>>
    ELSE LET d    == (rem * 10) \div den
             r    == (rem * 10) % den
             rest == LongDiv(r, den, n - 1)
         IN  <<(<<d>>) \o rest[1], rest[2]>>

RECURSIVE Increment(_)
\* A digit sequence plus one unit in its last place (the carry out of the
\* first digit is dropped: it arises only for a quotient that rounds to 1).
Increment(ds) ==
    IF ds = << >> THEN << >>
    ELSE LET n == Len(ds)
         IN  IF ds[n] < 9 THEN [ds EXCEPT ![n] = ds[n] + 1]
             ELSE Increment(SubSeq(ds, 1, n - 1)) \o <<0>>

\* Decimal(num) / Decimal(den) for 0 <= num < den under the context's
\* precision: DecimalPrec significant digits, ties to even.
DecimalDivide(num, den) ==
    IF num = 0 THEN [i \in 1..DecimalPrec |-> 0]
    ELSE LET n   == LeadingZeros(num, den) + DecimalPrec
             q   == LongDiv(num, den, n)
             ds  == q[1]
             rem == q[2]
             up  == \/ 2 * rem > den
                    \/ 2 * rem = den /\ ds[n] % 2 = 1
         IN  IF up THEN Increment(ds) ELSE ds

\* Digit i of a decimal fraction, zero past its end.
Digit(ds, i) == IF i <= Len(ds) THEN ds[i] ELSE 0

\* a < b and a = b as numbers, for two decimal fractions.
DecimalLess(a, b) ==
    \E i \in 1..(IF Len(a) > Len(b) THEN Len(a) ELSE Len(b)) :
        /\ Digit(a, i) < Digit(b, i)
        /\ \A j \in 1..(i - 1) : Digit(a, j) = Digit(b, j)

DecimalEqual(a, b) ==
    \A i \in 1..(IF Len(a) > Len(b) THEN Len(a) ELSE Len(b)) :
        Digit(a, i) = Digit(b, i)

RECURSIVE DigitsValue(_)
\* The integer a digit sequence spells.
DigitsValue(ds) ==
    IF ds = << >> THEN 0
    ELSE 10 * DigitsValue(SubSeq(ds, 1, Len(ds) - 1)) + ds[Len(ds)]

\* d.quantize(Decimal("0.000001")): the fraction in millionths, ties to even.
Quantize6(ds) ==
    LET head == DigitsValue([i \in 1..6 |-> Digit(ds, i)])
        tail == [i \in 1..(IF Len(ds) > 6 THEN Len(ds) - 6 ELSE 0) |-> ds[i + 6]]
        half == Len(tail) > 0 /\ tail[1] = 5 /\ \A i \in 2..Len(tail) : tail[i] = 0
        more == Len(tail) > 0 /\ tail[1] >= 5 /\ ~half
    IN  IF more \/ (half /\ head % 2 = 1) THEN head + 1 ELSE head

\* (a - b).quantize(Decimal("0.0001")) for a, b in millionths: the
\* difference in ten-thousandths, ties to even, sign kept.
QuantizeDelta4(a, b) ==
    LET diff == a - b
        mag  == IF diff < 0 THEN -diff ELSE diff
        q    == mag \div 100
        r    == mag % 100
        rq   == IF r > 50 \/ (r = 50 /\ q % 2 = 1) THEN q + 1 ELSE q
    IN  IF diff < 0 THEN -rq ELSE rq

\* american_to_implied_probability(odds) for an Optional price.
american_to_implied_probability_swapped(odds) ==
    IF odds = None THEN DecimalDivide(0, 1)
    ELSE LET o == The(odds)
         IN  IF o > 0 THEN DecimalDivide(o, o + 100)
             ELSE DecimalDivide(100, -o + 100)
american_to_implied_probability(odds) ==
    IF odds = None THEN DecimalDivide(0, 1)
    ELSE LET o == The(odds)
         IN  IF o > 0 THEN DecimalDivide(100, o + 100)
             ELSE DecimalDivide(-o, -o + 100)

(***************************************************************************)
(* The movement detector, app/services/movement/detector.py.               *)
(*                                                                         *)
(* A snapshot is [id, event_id, sportsbook_id, fetched_at, home_price,     *)
(* away_price] with Optional prices.  The configuration cfg holds          *)
(* MOVEMENT_THRESHOLD_CENTS, MOVEMENT_COOLDOWN_MINUTES and the two float   *)
(* multipliers, each as a fraction [n, d] whose value n/d is exact in      *)
(* binary floating point, so that threshold * multiplier is exact too.     *)
(***************************************************************************)

\* The prices the model draws its snapshots from, and their probabilities,
\* each computed once.
ModelPrices ==
    {None} \cup {Some(p) : p \in {-2000, -300, -150, -110, -50, 50, 130, 160, 1499, 1500}}
Probability == [o \in ModelPrices |-> american_to_implied_probability(o)]

\* _snapshot_prices(snapshot)
snapshot_prices(snapshot) ==
    IF snapshot.home_price = None \/ snapshot.away_price = None THEN None
    ELSE Some([home |-> [price       |-> snapshot.home_price,
                         probability |-> Probability[snapshot.home_price]],
               away |-> [price       |-> snapshot.away_price,
                         probability |-> Probability[snapshot.away_price]]])

\* _identify_underdog(data): Some("home"), Some("away") or None.  The
\* probabilities are Decimals here, never None.
identify_underdog(data) ==
    LET home_prob == data.home.probability
        away_prob == data.away.probability
    IN  IF DecimalEqual(home_prob, away_prob) THEN None
        ELSE IF DecimalLess(home_prob, away_prob) THEN Some("home") ELSE Some("away")

\* "if underdog_side != current_underdog_side": the underdog flipped sides.
underdog_flipped_always_false(underdog_side, current_underdog_side) == FALSE
underdog_flipped(underdog_side, current_underdog_side) ==
    underdog_side # current_underdog_side

\* "movement_cents = prev_price - current_price"
movement_size_reversed(prev_price, current_price) == current_price - prev_price
movement_size(prev_price, current_price) == prev_price - current_price

\* "if prob_delta <= Decimal("0")", prob_delta in ten-thousandths
probability_not_up_never(prob_delta) == FALSE
probability_not_up(prob_delta) == prob_delta <= 0

\* _evaluate_movement(snapshot, previous_snapshot): Some(MovementResult) or None.
evaluate_movement(snapshot, previous_snapshot) ==
    LET previous == snapshot_prices(previous_snapshot)
        current  == snapshot_prices(snapshot)
    IN  IF previous = None \/ current = None THEN None
        ELSE
        LET underdog_side         == identify_underdog(The(previous))
            current_underdog_side == identify_underdog(The(current))
        IN  IF underdog_side = None \/ current_underdog_side = None THEN None
            ELSE IF underdog_flipped(underdog_side, current_underdog_side) THEN None
            ELSE
            LET side           == The(underdog_side)
                prev_price     == The(The(previous)[side].price)
                current_price  == The(The(current)[side].price)
                movement_cents == movement_size(prev_price, current_price)
                prev_prob      == Quantize6(The(previous)[side].probability)
                current_prob   == Quantize6(The(current)[side].probability)
                prob_delta     == QuantizeDelta4(current_prob, prev_prob)
            IN  IF movement_cents <= 0 THEN None
                ELSE IF probability_not_up(prob_delta) THEN None
                ELSE Some([bet_side             |-> side,
                           movement_cents       |-> movement_cents,
                           probability_delta    |-> prob_delta,
                           previous_price       |-> prev_price,
                           current_price        |-> current_price,
                           previous_probability |-> prev_prob,
                           current_probability  |-> current_prob])

\* "window_start = snapshot.fetched_at - timedelta(minutes=cooldown_minutes)"
window_start_in_seconds(fetched_at, cooldown_minutes) == fetched_at - (cooldown_minutes \div 60)
window_start_of(fetched_at, cooldown_minutes) == fetched_at - cooldown_minutes

\* ".filter(Recommendation.triggered_at >= window_start)"
in_window_strict(triggered_at, window_start) == triggered_at > window_start
in_window(triggered_at, window_start) == triggered_at >= window_start

\* _passes_cooldown(snapshot, bet_side, cooldown_minutes) against the stored
\* Recommendation rows.
passes_cooldown(stored, snapshot, bet_side, cooldown_minutes) ==
    IF cooldown_minutes <= 0 THEN TRUE
    ELSE LET window_start == window_start_of(snapshot.fetched_at, cooldown_minutes)
         IN  ~ \E i \in DOMAIN stored :
                   /\ stored[i].event_id = snapshot.event_id
                   /\ stored[i].sportsbook_id = snapshot.sportsbook_id
                   /\ stored[i].bet_side = bet_side
                   /\ in_window(stored[i].triggered_at, window_start)

\* _confidence_bucket(movement_cents, threshold, medium_multiplier, high_multiplier)
confidence_bucket_strict(movement_cents, threshold, medium_multiplier, high_multiplier) ==
    IF movement_cents * high_multiplier.d > threshold * high_multiplier.n THEN "high"
    ELSE IF movement_cents * medium_multiplier.d > threshold * medium_multiplier.n THEN "medium"
    ELSE "low"
confidence_bucket(movement_cents, threshold, medium_multiplier, high_multiplier) ==
    IF movement_cents * high_multiplier.d >= threshold * high_multiplier.n THEN "high"
    ELSE IF movement_cents * medium_multiplier.d >= threshold * medium_multiplier.n THEN "medium"
    ELSE "low"

\* "if movement.movement_cents < threshold_cents"
below_threshold_never(movement_cents, threshold_cents) == FALSE
below_threshold(movement_cents, threshold_cents) == movement_cents < threshold_cents

\* str(d) of a Decimal d of units / 10^places: the text of its digits with
\* places of them after the point.
decimal_str(units, places) == [text |-> units, places |-> places]

\* The details payload of lines 72-79 for the MovementResult m.
recommendation_details_swapped(m, threshold_cents) ==
    [previous_price       |-> m.current_price,
     current_price        |-> m.previous_price,
     previous_probability |-> decimal_str(m.current_probability, 6),
     current_probability  |-> decimal_str(m.previous_probability, 6),
     probability_delta    |-> decimal_str(m.probability_delta, 4),
     threshold_cents      |-> threshold_cents]
recommendation_details(m, threshold_cents) ==
    [previous_price       |-> m.previous_price,
     current_price        |-> m.current_price,
     previous_probability |-> decimal_str(m.previous_probability, 6),
     current_probability  |-> decimal_str(m.current_probability, 6),
     probability_delta    |-> decimal_str(m.probability_delta, 4),
     threshold_cents      |-> threshold_cents]

\* detect_reverse_line_move(snapshot, previous_snapshot): Some(Recommendation)
\* or None.  previous_snapshot is an Optional snapshot; config is
\* current_app.config and stored the recommendations table.  The columns
\* the constructor is not given are None.
detect_reverse_line_move(config, stored, snapshot, previous_snapshot) ==
    IF previous_snapshot = None THEN None
    ELSE
    LET movement == evaluate_movement(snapshot, The(previous_snapshot))
    IN  IF movement = None THEN None
        ELSE
        LET m == The(movement)
            threshold_cents  == config.MOVEMENT_THRESHOLD_CENTS
            cooldown_minutes == config.MOVEMENT_COOLDOWN_MINUTES
        IN  IF below_threshold(m.movement_cents, threshold_cents) THEN None
            ELSE IF ~ passes_cooldown(stored, snapshot, m.bet_side, cooldown_minutes) THEN None
            ELSE Some([event_id       |-> snapshot.event_id,
                       sportsbook_id  |-> snapshot.sportsbook_id,
                       snapshot_id    |-> snapshot.id,
                       triggered_at   |-> snapshot.fetched_at,
                       direction      |-> "reverse",
                       movement_cents |-> m.movement_cents,
                       edge           |-> m.probability_delta,
                       confidence     |-> confidence_bucket(m.movement_cents, threshold_cents,
                                              config.MOVEMENT_MEDIUM_MULTIPLIER,
                                              config.MOVEMENT_HIGH_MULTIPLIER),
                       bet_side       |-> m.bet_side,
                       status         |-> "pending",
                       details        |-> recommendation_details(m, threshold_cents),
                       closing_price   |-> None,
                       resolved_result |-> None,
                       resolved_at     |-> None])


(***************************************************************************)
(* The snapshot normalizer and store, app/worker/tasks.py.                 *)
(*                                                                         *)
(* Raw payloads.  A timestamp string is [iso, local, offset]: whether it   *)
(* parses as ISO 8601, and if so its local minute and its UTC offset.  A   *)
(* price is Optional.                                                      *)
(***************************************************************************)
Iso(local, offset) == Some([iso |-> TRUE, local |-> local, offset |-> offset])
Garbled == Some([iso |-> FALSE, local |-> 0, offset |-> 0])

H2H(home, away) ==
    [key |-> "h2h",
     outcomes |-> <<[name |-> "H", price |-> Some(home)],
                    [name |-> "A", price |-> Some(away)]>>]
Spreads == [key |-> "spreads", outcomes |-> << >>]

Book(key, last_update, markets) ==
    [key |-> key, title |-> key, last_update |-> last_update, markets |-> markets]

\* One element of the list TheOddsAPI.fetch_moneyline_odds returns.  The
\* game starts at minute 4.
Payload(id, bookmaker_entries) ==
    [provider  |-> "theoddsapi",
     sport_key |-> "basketball_nba",
     event     |-> [id |-> id, home_team |-> "H", away_team |-> "A",
                    commence_time |-> Iso(4, 0), sport_title |-> "NBA",
                    bookmakers |-> bookmaker_entries]]

\* The batches the model ingests:
\*   1  one event quoted by two bookmakers
\*   2  batch 1 after a second event with a bookmaker entry whose
\*      last_update does not parse
\*   3  one key twice in a batch (the same instant written with two offsets)
\*   4  a later quote of the event, one bookmaker entry without an h2h market,
\*      the other with the away price down from +160 to +130
\*   5  one event sighted twice in a batch, first without bookmaker entries
\*   6  no data
\*   7  one event quoted twice by a bookmaker, once without last_update and
\*      once with a last_update that does not parse
\*   8  batch 4 without its bookmaker entry that has no h2h market
Batch(b) ==
    CASE b = 1 -> <<Payload("e1", <<Book("dk", Iso(1, 0), <<H2H(-150, 130)>>),
                                    Book("fd", Iso(1, 0), <<H2H(-150, 160)>>)>>)>>
      [] b = 2 -> <<Payload("e2", <<Book("dk", Garbled, <<H2H(130, -150)>>)>>),
                    Payload("e1", <<Book("dk", Iso(1, 0), <<H2H(-150, 130)>>),
                                    Book("fd", Iso(1, 0), <<H2H(-150, 160)>>)>>)>>
      [] b = 3 -> <<Payload("e1", <<Book("dk", Iso(1, 0), <<H2H(-150, 130)>>),
                                    Book("dk", Iso(2, 1), <<H2H(-150, 130)>>)>>)>>
      [] b = 4 -> <<Payload("e1", <<Book("dk", Iso(2, 0), <<Spreads>>),
                                    Book("fd", Iso(2, 0), <<Spreads, H2H(-150, 130)>>)>>)>>
      [] b = 5 -> <<Payload("e1", << >>),
                    Payload("e1", <<Book("dk", Iso(1, 0), <<H2H(-150, 130)>>)>>)>>
      [] b = 7 -> <<Payload("e2", <<Book("dk", None, <<H2H(130, -150)>>),
                                    Book("dk", Garbled, <<H2H(130, -150)>>)>>)>>
      [] b = 8 -> <<Payload("e1", <<Book("fd", Iso(2, 0), <<Spreads, H2H(-150, 130)>>)>>)>>
      [] OTHER -> << >>

\* _parse_datetime(value): the instant in UTC, or None.
parse_datetime(value) ==
    IF value = None THEN None
    ELSE IF ~ The(value).iso THEN None
    ELSE Some(The(value).local - The(value).offset)

\* datetime.now(timezone.utc) at the c-th reading of the clock: later than
\* every last_update the providers report (minutes 1 and 2), and later at
\* each reading.
utcnow(c) == 3 + c

\* _extract_market(markets, key): the first market with that key, or None.
extract_market_any_key(markets, key) ==
    IF markets = << >> THEN None ELSE Some(markets[1])
extract_market(markets, key) ==
    LET idx == {i \in DOMAIN markets : markets[i].key = key}
    IN  IF idx = {} THEN None
        ELSE Some(markets[CHOOSE i \in idx : \A k \in idx : i <= k])

\* _map_outcomes(outcomes).get(name): the price of the last outcome of that
\* name that has a price, or None.
outcome_price(outcomes, name) ==
    LET idx == {i \in DOMAIN outcomes :
                    outcomes[i].name = name /\ outcomes[i].price # None}
    IN  IF idx = {} THEN None
        ELSE outcomes[CHOOSE i \in idx : \A k \in idx : i >= k].price

\* outcomes.get("Draw") or outcomes.get("draw")
draw_price_of(outcomes) ==
    LET d == outcome_price(outcomes, "Draw")
    IN  IF d # None /\ The(d) # 0 THEN d ELSE outcome_price(outcomes, "draw")

\* _to_decimal(price)
to_decimal(price) == IF price = None THEN None ELSE Some(Probability[price])

(***************************************************************************)
(* Rows.  An Event's surrogate id is modelled by its unique pair           *)
(* (provider, provider_event_id) and a Sportsbook's by its unique key.     *)
(***************************************************************************)
EventId(provider, payload) == <<provider, payload.id>>

\* The Event as _upsert_event leaves it: the descriptive columns from the
\* payload, the result columns as they were (None on a new row).
EventRow(provider, sport_key, payload, scores) ==
    [id                |-> EventId(provider, payload),
     provider          |-> provider,
     provider_event_id |-> payload.id,
     sport_key         |-> sport_key,
     commence_time     |-> parse_datetime(payload.commence_time),
     home_team         |-> payload.home_team,
     away_team         |-> payload.away_team,
     league            |-> payload.sport_title,
     raw               |-> payload,
     home_score        |-> scores.home_score,
     away_score        |-> scores.away_score,
     resolved_at       |-> scores.resolved_at]

NoScores == [home_score |-> None, away_score |-> None, resolved_at |-> None]

\* Sportsbook(key=key, name=key.title())
SportsbookRow(key) == [key |-> key, name |-> <<"title", key>>, is_active |-> TRUE]

\* The OddsSnapshot persist_snapshot_batch builds for one bookmaker entry.
SnapshotRow(event, sportsbook_id, provider, fetched_at, market) ==
    LET outcomes   == market.outcomes
        home_price == outcome_price(outcomes, event.home_team)
        away_price == outcome_price(outcomes, event.away_team)
        draw_price == draw_price_of(outcomes)
    IN  [event_id          |-> event.id,
         sportsbook_id     |-> sportsbook_id,
         provider          |-> provider,
         fetched_at        |-> fetched_at,
         market_key        |-> market.key,
         home_price        |-> home_price,
         away_price        |-> away_price,
         draw_price        |-> draw_price,
         home_implied_prob |-> to_decimal(home_price),
         away_implied_prob |-> to_decimal(away_price),
         draw_implied_prob |-> to_decimal(draw_price)]

\* uq_snapshot_unique_event
SnapshotKey(row) ==
    <<row.event_id, row.sportsbook_id, row.provider, row.market_key, row.fetched_at>>

\* _snapshot_exists(event_id, sportsbook_id, provider, fetched_at) over the
\* rows the session sees.
snapshot_exists_never(visible, event_id, sportsbook_id, provider, fetched_at) == FALSE
snapshot_exists_any_time(visible, event_id, sportsbook_id, provider, fetched_at) ==
    \E row \in visible :
        /\ row.event_id = event_id
        /\ row.sportsbook_id = sportsbook_id
        /\ row.provider = provider
        /\ fetched_at # None => row.fetched_at = The(fetched_at)
snapshot_exists(visible, event_id, sportsbook_id, provider, fetched_at) ==
    IF fetched_at = None THEN FALSE
    ELSE \E row \in visible :
             /\ row.event_id = event_id
             /\ row.sportsbook_id = sportsbook_id
             /\ row.provider = provider
             /\ row.fetched_at = The(fetched_at)

(***************************************************************************)
(* State.                                                                  *)
(***************************************************************************)
VARIABLES
    cfg,      \* detector: current_app.config's MOVEMENT_* settings
    recs,     \* detector: the recommendations table, in insertion order
    call,     \* detector: the arguments of the latest call, Optional
    result,   \* detector: what that call returned, not yet persisted
    bookmakers,   \* store: current_app.config["BOOKMAKERS"], the allow-list
    sportsbooks,  \* store: the committed rows of table sportsbooks
    events,       \* store: the committed rows of table events
    snapshots,    \* store: the committed rows of table odds_snapshots
    wk,           \* store: each worker's position in persist_snapshot_batch
                  \*        and its session's uncommitted writes
    clock,        \* store: the number of times the wall clock was read
    cycles,       \* store: the number of ingestion cycles started
    last,         \* store: the latest cycle that ran to its end, Optional
    fetch,        \* gateway: the position of OddsClient.fetch_moneyline_odds
                  \*          and what it has collected
    conv,         \* converter: the argument of a call of
                  \*            american_to_implied_probability and its outcome
    bets          \* workflow: the rows of table bets, in insertion order

detectorVars == <<cfg, recs, call, result>>
storeVars == <<bookmakers, sportsbooks, events, snapshots, wk, clock, cycles, last>>
gatewayVars == <<fetch>>
converterVars == <<conv>>
workflowVars == <<bets>>
vars == <<cfg, recs, call, result,
          bookmakers, sportsbooks, events, snapshots, wk, clock, cycles, last, fetch,
          conv, bets>>

(***************************************************************************)
(* The probability converter called on its own.                            *)
(***************************************************************************)
\* Prices range over -MaxPrice..MaxPrice, and a few long prices.
MaxPrice == 120
LongPrices == {-10000, -2000, 1499, 1500, 10000}
ConverterInputs ==
    {None} \cup {Some(p) : p \in (-MaxPrice..MaxPrice) \cup LongPrices}

\* The converter before the call with argument odds.
PendingConversion(odds) ==
    [called |-> FALSE, odds |-> odds, raised |-> FALSE, value |-> << >>]
ConverterIdle == conv = PendingConversion(None)

\* One call american_to_implied_probability(conv.odds): no statement of the
\* function raises for an int or None.
Convert ==
    /\ ~ conv.called
    /\ conv' = [conv EXCEPT !.called = TRUE,
                            !.value = american_to_implied_probability(conv.odds)]
    /\ UNCHANGED <<detectorVars, storeVars, gatewayVars, workflowVars>>

(***************************************************************************)
(* Bounds and input sets of the detector.                                  *)
(***************************************************************************)
\* Fetch and trigger times range over 0..MaxTime minutes.
MaxTime == 3
\* The recommendations table holds at most MaxRecs rows.
MaxRecs == 2

Times == 0..MaxTime
Sides == {"home", "away"}

Two   == [n |-> 2, d |-> 1]    \* 2.0
Three == [n |-> 3, d |-> 1]    \* 3.0
OneAndHalf == [n |-> 3, d |-> 2]    \* 1.5

Config(threshold, cooldown, medium, high) ==
    [MOVEMENT_THRESHOLD_CENTS   |-> threshold,
     MOVEMENT_COOLDOWN_MINUTES  |-> cooldown,
     MOVEMENT_MEDIUM_MULTIPLIER |-> medium,
     MOVEMENT_HIGH_MULTIPLIER   |-> high]

Snapshot(id, sportsbook, at, home, away) ==
    [id |-> id, event_id |-> 1, sportsbook_id |-> sportsbook, fetched_at |-> at,
     home_price |-> home, away_price |-> away]

\* A quote is <<home price, away price>>.  The new snapshot has id 2 and the
\* one before it, of the same event and sportsbook, id 1.
NewSnapshots(times, quotes) ==
    {Snapshot(2, 1, t, q[1], q[2]) : t \in times, q \in quotes}
PreviousSnapshots(quotes) ==
    {None} \cup {Some(Snapshot(1, 1, 0, q[1], q[2])) : q \in quotes}

\* The call detect_reverse_line_move(snapshot, previous_snapshot) under the
\* application context of the current state: current_app.config and the
\* recommendations table.
detect_at_wall_clock(snapshot, previous_snapshot) ==
    detect_reverse_line_move(cfg, recs, [snapshot EXCEPT !.fetched_at = utcnow(clock)],
                             previous_snapshot)
detect_in_context(snapshot, previous_snapshot) ==
    detect_reverse_line_move(cfg, recs, snapshot, previous_snapshot)

\* The caller evaluates one snapshot pair at most MaxEvaluations times.
MaxEvaluations == 2

Detect_and_store(snapshot, previous_snapshot) ==
    /\ call = None
    /\ call' = Some([snapshot |-> snapshot, previous_snapshot |-> previous_snapshot,
                     evaluations |-> 1])
    /\ result' = detect_in_context(snapshot, previous_snapshot)
    /\ recs' = IF result' = None \/ Len(recs) >= MaxRecs THEN recs
               ELSE Append(recs, The(result'))
    /\ UNCHANGED cfg
    /\ UNCHANGED <<storeVars, gatewayVars, converterVars, workflowVars>>

\* One evaluation: the caller passes a snapshot and the one before it for the
\* same event and sportsbook, once it is done with the previous evaluation.
\* The call records its arguments and how often they have been evaluated.
Detect(snapshot, previous_snapshot) ==
    /\ call = None
    /\ call' = Some([snapshot |-> snapshot, previous_snapshot |-> previous_snapshot,
                     evaluations |-> 1])
    /\ result' = detect_in_context(snapshot, previous_snapshot)
    /\ UNCHANGED <<cfg, recs>>
    /\ UNCHANGED <<storeVars, gatewayVars, converterVars, workflowVars>>

\* The caller stores the returned Recommendation (session add and commit).
PersistRecommendation ==
    /\ result # None
    /\ Len(recs) < MaxRecs
    /\ recs' = Append(recs, The(result))
    /\ result' = None
    /\ call' = None
    /\ UNCHANGED cfg
    /\ UNCHANGED <<storeVars, gatewayVars, converterVars, workflowVars>>

\* The call returned None: the caller has nothing to store and moves on.
NoSignal ==
    /\ call # None
    /\ result = None
    /\ call' = None
    /\ UNCHANGED <<cfg, recs, result>>
    /\ UNCHANGED <<storeVars, gatewayVars, converterVars, workflowVars>>

\* The caller evaluates a snapshot pair for the first time, or the pair of
\* the latest call once more, with the configuration and the
\* recommendations table as they are.
Evaluate(snapshot, previous_snapshot) ==
    /\ \/ call = None
       \/ \E latest \in call : /\ latest.snapshot = snapshot
                                /\ latest.previous_snapshot = previous_snapshot
                                /\ latest.evaluations < MaxEvaluations
    /\ call' = Some([snapshot |-> snapshot, previous_snapshot |-> previous_snapshot,
                     evaluations |-> IF call = None THEN 1
                                     ELSE The(call).evaluations + 1])
    /\ result' = detect_in_context(snapshot, previous_snapshot)
    /\ UNCHANGED <<cfg, recs>>
    /\ UNCHANGED <<storeVars, gatewayVars, converterVars, workflowVars>>

\* The wall clock moves on while the detector is between two evaluations.
Tick ==
    /\ clock < MaxTime
    /\ clock' = clock + 1
    /\ UNCHANGED <<bookmakers, sportsbooks, events, snapshots, wk, cycles, last>>
    /\ UNCHANGED <<detectorVars, gatewayVars, converterVars, workflowVars>>


(***************************************************************************)
(* persist_snapshot_batch, step by step.  A worker is one execution of     *)
(* run_ingest_cycle with its own database session.  A session reads the    *)
(* committed rows and its own flushed rows; a flush that writes a key      *)
(* another session holds flushed and uncommitted waits for that session;   *)
(* a flush that writes a key already committed raises IntegrityError.      *)
(***************************************************************************)
Workers == {"w1", "w2"}
\* At most MaxCycles ingestion cycles are started.
MaxCycles == 3
BatchIds == 1..8
BookmakerConfigs == {{"dk"}, {"dk", "fd"}, {}}

IdleWorker ==
    [pc |-> "idle", batch |-> 0, i |-> 0, j |-> 0,
     missing |-> {}, lookup |-> {}, found |-> FALSE,
     evw |-> {}, sn |-> << >>, nfl |-> 0,
     inserted |-> 0, skipped |-> 0, err |-> "", at |-> "",
     created |-> {}, prev |-> None]

Running(r) == r.pc \notin {"idle", "done", "raised"}
Range(seq) == {seq[k] : k \in DOMAIN seq}

\* The worker after its cycle ended at step r.pc: the session is closed, its
\* uncommitted writes are gone.
Ended(r, pc, err) ==
    [IdleWorker EXCEPT !.pc = pc, !.batch = r.batch, !.inserted = r.inserted,
                       !.skipped = r.skipped, !.err = err, !.at = r.pc,
                       !.created = r.created, !.prev = r.prev]

SportsbookKeys == {x.key : x \in sportsbooks}
EventIds == {x.id : x \in events}
SnapshotKeys == {SnapshotKey(x) : x \in snapshots}

HeldEventIds(r) == {e.row.id : e \in {x \in r.evw : x.flushed}}
HeldSnapshotKeys(r) == {SnapshotKey(r.sn[k]) : k \in 1..r.nfl}
PendingEventIds(r) == {e.row.id : e \in {x \in r.evw : ~ x.flushed}}
PendingSnapshotKeys(r) == {SnapshotKey(r.sn[k]) : k \in (r.nfl + 1)..Len(r.sn)}

\* The session's flush would wait for another session's uncommitted row.
Blocked(w) ==
    \E v \in Workers \ {w} :
        \/ PendingEventIds(wk[w]) \cap HeldEventIds(wk[v]) # {}
        \/ PendingSnapshotKeys(wk[w]) \cap HeldSnapshotKeys(wk[v]) # {}

\* The session's flush would break uq_event_provider_id or
\* uq_snapshot_unique_event.
FlushViolates_events_only(r) ==
    \E e \in r.evw : ~ e.flushed /\ e.op = "insert" /\ e.row.id \in EventIds
FlushViolates(r) ==
    \/ \E e \in r.evw : ~ e.flushed /\ e.op = "insert" /\ e.row.id \in EventIds
    \/ \E k \in (r.nfl + 1)..Len(r.sn) :
           SnapshotKey(r.sn[k]) \in
               SnapshotKeys \cup {SnapshotKey(r.sn[m]) : m \in 1..(k - 1)}

Flushed(r) ==
    [r EXCEPT !.evw = {[e EXCEPT !.flushed = TRUE] : e \in r.evw},
              !.nfl = Len(r.sn)]

\* Event.query.filter_by(provider, provider_event_id).first() in session r.
VisibleEvent(r, id) ==
    IF \E e \in r.evw : e.row.id = id
    THEN Some((CHOOSE e \in r.evw : e.row.id = id).row)
    ELSE IF id \in EventIds THEN Some(CHOOSE x \in events : x.id = id)
    ELSE None

VisibleSnapshots(r) == snapshots \cup {r.sn[k] : k \in 1..r.nfl}

CurrentPayload(r) == Batch(r.batch)[r.i]
CurrentEntries(r) == CurrentPayload(r).event.bookmakers
CurrentEventId(r) == EventId(CurrentPayload(r).provider, CurrentPayload(r).event)

\* The next iteration of the loops of lines 59 and 70, or the commit.
NextPayload(r) ==
    IF r.i < Len(Batch(r.batch))
    THEN [r EXCEPT !.pc = "upsert", !.i = r.i + 1, !.j = 0]
    ELSE [r EXCEPT !.pc = "commit", !.j = 0]
NextEntry(r) ==
    IF r.j < Len(CurrentEntries(r)) THEN [r EXCEPT !.j = r.j + 1] ELSE NextPayload(r)
\* lines 66-70: _upsert_event returned
EventDone(r) ==
    IF CurrentEntries(r) = << >> THEN NextPayload(r)
    ELSE [r EXCEPT !.pc = "book", !.j = 1]

\* An exception leaves persist_snapshot_batch; nothing of the session is
\* committed.
Raise(w, err) ==
    /\ wk' = [wk EXCEPT ![w] = Ended(wk[w], "raised", err)]
    /\ last' = None
    /\ UNCHANGED <<bookmakers, sportsbooks, events, snapshots, clock, cycles>>

\* persist_snapshot_batch(data) is entered with batch b, lines 43-49.
BeginPersist(w, b) ==
    /\ ~ Running(wk[w])
    /\ cycles < MaxCycles
    /\ cycles' = cycles + 1
    /\ IF Batch(b) = << >>
       THEN /\ wk' = [wk EXCEPT ![w] = [IdleWorker EXCEPT !.pc = "done", !.batch = b,
                                                          !.prev = last]]
            /\ last' = Some([batch |-> b, inserted |-> 0, skipped |-> 0,
                             snapshots |-> snapshots])
       ELSE /\ wk' = [wk EXCEPT ![w] = [IdleWorker EXCEPT !.pc = "ensure", !.batch = b,
                                                          !.prev = last]]
            /\ last' = last
    /\ UNCHANGED <<bookmakers, sportsbooks, events, snapshots, clock>>

\* run_ingest_cycle calls persist_snapshot_batch(data) with the data of a
\* fetch the model does not follow.
StartCycle(w, b) ==
    /\ BeginPersist(w, b)
    /\ UNCHANGED <<detectorVars, gatewayVars, converterVars, workflowVars>>

\* _sportsbook_lookup(bookmakers), lines 145-150, over the rows sbs.
sportsbook_lookup(allow, sbs) ==
    IF allow # {} THEN {x.key : x \in {y \in sbs : y.key \in allow}}
    ELSE {x.key : x \in sbs}

\* _ensure_sportsbooks, lines 128-140: the query for the existing rows.
EnsureQuery(w) ==
    LET r == wk[w] IN
    /\ r.pc = "ensure"
    /\ IF bookmakers = {}
       THEN wk' = [wk EXCEPT ![w] =
                      [r EXCEPT !.pc = "upsert", !.i = 1,
                                !.lookup = sportsbook_lookup(bookmakers, sportsbooks)]]
       ELSE wk' = [wk EXCEPT ![w] =
                      [r EXCEPT !.pc = "ensure_commit",
                                !.missing = bookmakers \ SportsbookKeys]]
    /\ UNCHANGED <<bookmakers, sportsbooks, events, snapshots, clock, cycles, last>>
    /\ UNCHANGED <<detectorVars, gatewayVars, converterVars, workflowVars>>

\* _ensure_sportsbooks, line 142: db.session.commit() of the added rows,
\* then _sportsbook_lookup, line 54.
commit_sportsbooks(sbs, missing) == sbs \cup {SportsbookRow(k) : k \in missing}

EnsureCommit(w) ==
    LET r == wk[w] IN
    /\ r.pc = "ensure_commit"
    /\ IF r.missing \cap SportsbookKeys # {}
       THEN Raise(w, "IntegrityError")
       ELSE /\ sportsbooks' = commit_sportsbooks(sportsbooks, r.missing)
            /\ wk' = [wk EXCEPT ![w] =
                         [r EXCEPT !.pc = "upsert", !.i = 1, !.missing = {},
                                   !.created = sportsbooks' \ sportsbooks,
                                   !.lookup = sportsbook_lookup(bookmakers, sportsbooks')]]
            /\ UNCHANGED <<bookmakers, events, snapshots, clock, cycles, last>>
    /\ UNCHANGED <<detectorVars, gatewayVars, converterVars, workflowVars>>


\* The step of worker w flushes its session: the flush of line 179, the
\* autoflush before a query, or the flush of the commit.
NeedsFlush(w) ==
    LET r == wk[w] IN
    \/ r.pc \in {"upsert", "flush_event", "commit"}
    \/ /\ r.pc = "book"
       /\ LET bookmaker == CurrentEntries(r)[r.j]
          IN  /\ bookmakers = {} \/ bookmaker.key \in bookmakers
              /\ bookmaker.key \in r.lookup
              /\ extract_market(bookmaker.markets, "h2h") # None
              /\ parse_datetime(bookmaker.last_update) # None

\* _upsert_event, lines 154-156: the query (with its autoflush).
UpsertQuery(w) ==
    LET r == wk[w] IN
    /\ r.pc = "upsert"
    /\ ~ Blocked(w)
    /\ IF FlushViolates(r)
       THEN Raise(w, "IntegrityError")
       ELSE /\ wk' = [wk EXCEPT ![w] =
                         [Flushed(r) EXCEPT
                             !.pc = "upsert_write",
                             !.found = (VisibleEvent(r, CurrentEventId(r)) # None)]]
            /\ UNCHANGED <<bookmakers, sportsbooks, events, snapshots, clock, cycles, last>>
    /\ UNCHANGED <<detectorVars, gatewayVars, converterVars, workflowVars>>

\* _upsert_event, lines 158-178: the found Event takes the payload's values
\* (an UPDATE is pending only if a value differs), or a new Event is added.
UpsertWrite(w) ==
    LET r        == wk[w]
        payload  == CurrentPayload(r)
        id       == CurrentEventId(r)
        own      == {e \in r.evw : e.row.id = id}
        old      == The(VisibleEvent(r, id))
        updated  == EventRow(payload.provider, payload.sport_key, payload.event,
                             [home_score  |-> old.home_score,
                              away_score  |-> old.away_score,
                              resolved_at |-> old.resolved_at])
        added    == EventRow(payload.provider, payload.sport_key, payload.event, NoScores)
    IN
    /\ r.pc = "upsert_write"
    /\ IF r.found
       THEN IF updated = old
            THEN wk' = [wk EXCEPT ![w] = EventDone(r)]
            ELSE IF own # {}
            THEN wk' = [wk EXCEPT ![w] =
                           EventDone([r EXCEPT !.evw =
                               {IF e \in own THEN [e EXCEPT !.row = updated] ELSE e
                                   : e \in r.evw}])]
            ELSE wk' = [wk EXCEPT ![w] =
                           EventDone([r EXCEPT !.evw = r.evw \cup
                               {[row |-> updated, op |-> "update", flushed |-> FALSE]}])]
       ELSE wk' = [wk EXCEPT ![w] =
                      [r EXCEPT !.pc = "flush_event",
                                !.evw = r.evw \cup
                                    {[row |-> added, op |-> "insert", flushed |-> FALSE]}]]
    /\ UNCHANGED <<bookmakers, sportsbooks, events, snapshots, clock, cycles, last>>
    /\ UNCHANGED <<detectorVars, gatewayVars, converterVars, workflowVars>>

\* _upsert_event, line 179: db.session.flush() after the add.
UpsertFlush(w) ==
    LET r == wk[w] IN
    /\ r.pc = "flush_event"
    /\ ~ Blocked(w)
    /\ IF FlushViolates(r)
       THEN Raise(w, "IntegrityError")
       ELSE /\ wk' = [wk EXCEPT ![w] = EventDone(Flushed(r))]
            /\ UNCHANGED <<bookmakers, sportsbooks, events, snapshots, clock, cycles, last>>
    /\ UNCHANGED <<detectorVars, gatewayVars, converterVars, workflowVars>>

\* One iteration of the loop over bookmaker entries, lines 70-115.
BookStep(w) ==
    LET r          == wk[w]
        payload    == CurrentPayload(r)
        event      == The(VisibleEvent(r, CurrentEventId(r)))
        bookmaker  == CurrentEntries(r)[r.j]
        book_key   == bookmaker.key
        fetched_at == parse_datetime(bookmaker.last_update)
        market     == extract_market(bookmaker.markets, "h2h")
        stamp      == IF fetched_at # None THEN The(fetched_at) ELSE utcnow(clock)
        snapshot   == SnapshotRow(event, book_key, payload.provider, stamp, The(market))
        flushed    == Flushed(r)
    IN
    /\ r.pc = "book"
    /\ NeedsFlush(w) => ~ Blocked(w)
    /\ IF \/ (bookmakers # {} /\ book_key \notin bookmakers)
          \/ book_key \notin r.lookup
          \/ market = None
       THEN /\ wk' = [wk EXCEPT ![w] = NextEntry(r)]
            /\ UNCHANGED <<bookmakers, sportsbooks, events, snapshots, clock, cycles, last>>
       ELSE IF fetched_at = None
       THEN \* _snapshot_exists returns before its query, so nothing is flushed;
            \* line 97 reads the clock
            IF snapshot_exists(VisibleSnapshots(r), event.id, book_key,
                               payload.provider, fetched_at)
            THEN /\ wk' = [wk EXCEPT ![w] = NextEntry([r EXCEPT !.skipped = r.skipped + 1])]
                 /\ UNCHANGED <<bookmakers, sportsbooks, events, snapshots, clock, cycles,
                                last>>
            ELSE /\ wk' = [wk EXCEPT ![w] =
                              NextEntry([r EXCEPT !.sn = Append(r.sn, snapshot),
                                                  !.inserted = r.inserted + 1])]
                 /\ clock' = clock + 1
                 /\ UNCHANGED <<bookmakers, sportsbooks, events, snapshots, cycles, last>>
       ELSE IF FlushViolates(r)
       THEN Raise(w, "IntegrityError")
       ELSE /\ IF snapshot_exists(VisibleSnapshots(flushed), event.id, book_key,
                                  payload.provider, fetched_at)
               THEN wk' = [wk EXCEPT ![w] =
                              NextEntry([flushed EXCEPT !.skipped = r.skipped + 1])]
               ELSE wk' = [wk EXCEPT ![w] =
                              NextEntry([flushed EXCEPT !.sn = Append(r.sn, snapshot),
                                                        !.inserted = r.inserted + 1])]
            /\ UNCHANGED <<bookmakers, sportsbooks, events, snapshots, clock, cycles, last>>
    /\ UNCHANGED <<detectorVars, gatewayVars, converterVars, workflowVars>>

\* What the commit of lines 117-122 makes durable when the flush succeeds.
commit_events_inserts_only(evs, r) ==
    evs \cup {e.row : e \in {x \in r.evw : x.row.id \notin {y.id : y \in evs}}}
commit_events_whole_rows(evs, r) ==
    {x \in evs : x.id \notin {e.row.id : e \in r.evw}} \cup {e.row : e \in r.evw}
\* An INSERT writes the session's row; an UPDATE writes the columns
\* _upsert_event assigned and leaves the result columns as they are stored.
commit_events(evs, r) ==
    {x \in evs : x.id \notin {e.row.id : e \in r.evw}} \cup
    {IF e.op = "update"
     THEN LET stored == CHOOSE x \in evs : x.id = e.row.id
          IN  [e.row EXCEPT !.home_score = stored.home_score,
                            !.away_score = stored.away_score,
                            !.resolved_at = stored.resolved_at]
     ELSE e.row : e \in r.evw}
commit_snapshots(snaps, r) == snaps \cup Range(r.sn)

\* What it leaves when the flush raises IntegrityError: db.session.rollback().
rollback_keeps_events(evs, r) == commit_events(evs, r)
rollback_events(evs, r) == evs
rollback_snapshots(snaps, r) == snaps

\* lines 117-124: db.session.commit(); on IntegrityError rollback and raise.
Commit(w) ==
    LET r == wk[w] IN
    /\ r.pc = "commit"
    /\ ~ Blocked(w)
    /\ IF FlushViolates(r)
       THEN /\ events' = rollback_events(events, r)
            /\ snapshots' = rollback_snapshots(snapshots, r)
            /\ wk' = [wk EXCEPT ![w] = Ended(r, "raised", "IntegrityError")]
            /\ last' = None
       ELSE /\ events' = commit_events(events, r)
            /\ snapshots' = commit_snapshots(snapshots, r)
            /\ wk' = [wk EXCEPT ![w] = Ended(r, "done", "")]
            /\ last' = Some([batch |-> r.batch, inserted |-> r.inserted,
                             skipped |-> r.skipped, snapshots |-> snapshots'])
    /\ UNCHANGED <<bookmakers, sportsbooks, clock, cycles>>
    /\ UNCHANGED <<detectorVars, gatewayVars, converterVars, workflowVars>>

\* A flush waiting for another session's row gives up (lock timeout or
\* deadlock detection): OperationalError leaves persist_snapshot_batch.
WaitAbort(w) ==
    /\ Running(wk[w])
    /\ wk[w].pc \notin {"ensure", "ensure_commit", "upsert_write"}
    /\ NeedsFlush(w)
    /\ Blocked(w)
    /\ Raise(w, "OperationalError")
    /\ UNCHANGED <<detectorVars, gatewayVars, converterVars, workflowVars>>

\* The application is restarted with another BOOKMAKERS setting while no
\* cycle runs.
ConfigChange(bs) ==
    /\ \A w \in Workers : ~ Running(wk[w])
    /\ bs # bookmakers
    /\ bookmakers' = bs
    /\ last' = None
    /\ UNCHANGED <<sportsbooks, events, snapshots, wk, clock, cycles>>
    /\ UNCHANGED <<detectorVars, gatewayVars, converterVars, workflowVars>>

\* The gateway before a fetch.
IdleFetch(providers, sports) ==
    [pc |-> "idle", providers |-> providers, sports |-> sports,
     p |-> 0, s |-> 0, attempt |-> 0, outcome |-> "",
     results |-> << >>, aggregated |-> << >>, failed |-> {}]

GatewayIdle == fetch = IdleFetch(<<"theoddsapi">>, <<"basketball_nba">>)

WorkflowIdle == bets = << >>

DetectorIdle ==
    /\ cfg = Config(20, 0, Two, Three)
    /\ recs = << >>
    /\ call = None
    /\ result = None

StoreIdle ==
    /\ bookmakers = {"dk"}
    /\ sportsbooks = {}
    /\ events = {}
    /\ snapshots = {}
    /\ wk = [w \in Workers |-> IdleWorker]
    /\ clock = 0
    /\ cycles = 0
    /\ last = None

(***************************************************************************)
(* SpecSerial: ingestion cycles one after another (one worker), over every *)
(* batch and BOOKMAKERS setting.                                           *)
(***************************************************************************)
SerialInit == DetectorIdle /\ StoreIdle /\ GatewayIdle /\ ConverterIdle /\ WorkflowIdle

SerialNext ==
    \/ \E b \in BatchIds : StartCycle("w1", b)
    \/ EnsureQuery("w1")
    \/ EnsureCommit("w1")
    \/ UpsertQuery("w1")
    \/ UpsertWrite("w1")
    \/ UpsertFlush("w1")
    \/ BookStep("w1")
    \/ Commit("w1")
    \/ \E bs \in BookmakerConfigs : ConfigChange(bs)

SpecSerial == SerialInit /\ [][SerialNext]_vars

(***************************************************************************)
(* SpecConc: cycles of two workers that overlap.                           *)
(***************************************************************************)
ConcBatchIds == {1, 2}
ConcConfigs == {{"dk"}, {"dk", "fd"}}

ConcNext ==
    \/ \E w \in Workers :
           \/ \E b \in ConcBatchIds : StartCycle(w, b)
           \/ EnsureQuery(w)
           \/ EnsureCommit(w)
           \/ UpsertQuery(w)
           \/ UpsertWrite(w)
           \/ UpsertFlush(w)
           \/ BookStep(w)
           \/ Commit(w)
           \/ WaitAbort(w)
    \/ \E bs \in ConcConfigs : ConfigChange(bs)

SpecConc == SerialInit /\ [][ConcNext]_vars


(***************************************************************************)
(* The odds gateway: OddsClient over its providers, each provider fetching *)
(* every sport with TheOddsAPI's retried request.                          *)
(***************************************************************************)
\* stop_after_attempt(3)
RetryLimit == 3

\* The events a provider's endpoint reports for a sport.
EndpointData(provider, sport) == <<<<provider, sport, "x">>, <<provider, sport, "y">>>>

\* TheOddsAPI.fetch_moneyline_odds, lines 37-44: the payloads of one sport.
SportPayloads(provider, sport) ==
    LET data == EndpointData(provider, sport)
    IN  [k \in DOMAIN data |->
            [provider |-> provider, sport_key |-> sport, event |-> data[k]]]

\* The loop of OddsClient.fetch_moneyline_odds, line 75: the next provider's
\* first request, or the return of line 81.  A provider given no sports
\* returns [] at once.
RECURSIVE NextProvider(_)
NextProvider(f) ==
    IF f.p >= Len(f.providers)
    THEN [f EXCEPT !.pc = "done", !.p = 0, !.s = 0, !.attempt = 0, !.results = << >>]
    ELSE IF f.sports = << >>
    THEN NextProvider([f EXCEPT !.p = f.p + 1, !.results = << >>])
    ELSE [f EXCEPT !.pc = "request", !.p = f.p + 1, !.s = 1, !.attempt = 1,
                   !.results = << >>]

\* OddsClient.fetch_moneyline_odds, lines 78-80: what the client holds after
\* a provider returned its results, and after a provider raised.
provider_returned(aggregated, results) == aggregated \o results
provider_raised_keeps_results(aggregated, results) == aggregated \o results
provider_raised(aggregated, results) == aggregated

\* tenacity's stop_after_attempt: no attempt follows attempt number n.
stop_after_four(n) == n >= RetryLimit + 1
stop_after_attempt(n) == n >= RetryLimit

\* OddsProviderRegistry._providers once the provider modules are imported:
\* theoddsapi registers itself; other and third stand for further providers
\* a deployment registers.
Registered == {"theoddsapi", "other", "third"}

\* OddsProviderRegistry.load_configured_providers, lines 49-61: the
\* configured names that are registered, in their order.
load_unregistered_too(provider_names) == provider_names
load_configured_providers(provider_names) ==
    LET IsRegistered(name) == name \in Registered
    IN  SelectSeq(provider_names, IsRegistered)

\* run_ingest_cycle, lines 27-38: the client is called unless no sports are
\* configured or no provider could be loaded.  fetch.providers holds the
\* configured names before this step and the loaded providers after it.
StartFetch ==
    LET providers == load_configured_providers(fetch.providers) IN
    /\ fetch.pc = "idle"
    /\ IF fetch.sports = << >>
       THEN fetch' = [fetch EXCEPT !.pc = "skipped"]
       ELSE IF providers = << >>
       THEN fetch' = [fetch EXCEPT !.pc = "skipped"]
       ELSE fetch' = NextProvider([fetch EXCEPT !.providers = providers])
    /\ UNCHANGED <<detectorVars, storeVars, converterVars, workflowVars>>

\* One attempt of TheOddsAPI._get and what follows it.  The attempt ends with
\*   "ok"         a response whose body is the endpoint's list of events
\*   "malformed"  a response whose body response.json() cannot decode
\*   "error"      an exception of requests.get or raise_for_status
Attempt(outcome) ==
    LET f        == fetch
        provider == f.providers[f.p]
        sport    == f.sports[f.s]
        fail     == NextProvider([f EXCEPT
                        !.outcome = outcome,
                        !.failed = f.failed \cup {f.p},
                        !.aggregated = provider_raised(f.aggregated, f.results)])
    IN
    /\ f.pc = "request"
    /\ IF outcome = "ok"
       THEN LET results == f.results \o SportPayloads(provider, sport)
            IN  IF f.s < Len(f.sports)
                THEN fetch' = [f EXCEPT !.outcome = outcome, !.results = results,
                                        !.s = f.s + 1, !.attempt = 1]
                ELSE fetch' = NextProvider([f EXCEPT
                                  !.outcome = outcome,
                                  !.aggregated = provider_returned(f.aggregated, results)])
       ELSE IF outcome = "malformed"
       THEN fetch' = fail
       ELSE IF stop_after_attempt(f.attempt)
       THEN fetch' = fail
       ELSE fetch' = [f EXCEPT !.outcome = outcome, !.attempt = f.attempt + 1]
    /\ UNCHANGED <<detectorVars, storeVars, converterVars, workflowVars>>

\* The batches the data of a fetch stands for: no data when every provider
\* failed, a batch of payloads otherwise.
FetchedBatches(aggregated) == IF aggregated = << >> THEN {6} ELSE {1, 2}

\* run_ingest_cycle, line 40: persist_snapshot_batch(data) with what the
\* client returned.
RunPersist(w) ==
    /\ fetch.pc = "done"
    /\ fetch' = [fetch EXCEPT !.pc = "persist"]
    /\ \E b \in FetchedBatches(fetch.aggregated) : BeginPersist(w, b)
    /\ UNCHANGED <<detectorVars, converterVars, workflowVars>>

\* The scheduler starts the next run of run_ingest_cycle, under the
\* ODDS_PROVIDERS and ODDS_SPORTS settings then in force, once the run
\* before it is over.
NextRun(provider_names, sports) ==
    /\ fetch.pc \in {"skipped", "persist"}
    /\ \A w \in Workers : ~ Running(wk[w])
    /\ fetch' = IdleFetch(provider_names, sports)
    /\ UNCHANGED <<detectorVars, storeVars, converterVars, workflowVars>>

(***************************************************************************)
(* SpecFetch: one fetch over every list of providers and sports; every     *)
(* attempt ends (the request has a timeout), so the fetch keeps stepping.  *)
(***************************************************************************)
ProviderLists == {<< >>, <<"theoddsapi">>, <<"theoddsapi", "other">>,
                  <<"other", "theoddsapi", "third">>}
SportLists == {<< >>, <<"basketball_nba">>, <<"basketball_nba", "americanfootball_nfl">>}

FetchInit ==
    /\ DetectorIdle
    /\ StoreIdle
    /\ WorkflowIdle
    /\ ConverterIdle
    /\ fetch \in {IdleFetch(ps, ss) : ps \in ProviderLists, ss \in SportLists}

FetchNext ==
    \/ StartFetch
    \/ \E outcome \in {"ok", "malformed", "error"} : Attempt(outcome)

SpecFetch == FetchInit /\ [][FetchNext]_vars /\ WF_vars(FetchNext)

(***************************************************************************)
(* SpecCycle: runs of run_ingest_cycle from the configuration check to the *)
(* commit, one after another, under every provider and sport setting.      *)
(***************************************************************************)
CycleProviderNames == {<< >>, <<"unknown">>, <<"unknown", "theoddsapi">>}
CycleSports == {<< >>, <<"basketball_nba">>}

CycleInit ==
    /\ DetectorIdle
    /\ StoreIdle
    /\ WorkflowIdle
    /\ ConverterIdle
    /\ fetch \in {IdleFetch(ns, ss) : ns \in CycleProviderNames, ss \in CycleSports}

CycleNext ==
    \/ StartFetch
    \/ \E outcome \in {"ok", "malformed", "error"} : Attempt(outcome)
    \/ RunPersist("w1")
    \/ EnsureQuery("w1")
    \/ EnsureCommit("w1")
    \/ UpsertQuery("w1")
    \/ UpsertWrite("w1")
    \/ UpsertFlush("w1")
    \/ BookStep("w1")
    \/ Commit("w1")
    \/ \E ns \in CycleProviderNames : \E ss \in CycleSports : NextRun(ns, ss)

SpecCycle == CycleInit /\ [][CycleNext]_vars

(***************************************************************************)
(* The resolution interface, app/api/routes.py: log_bet,                   *)
(* resolve_recommendation and bulk_resolve_recommendations.  A             *)
(* Recommendation's id is its position in the recommendations table.  A    *)
(* request body is a record of Optional fields; an outcome is a text.      *)
(***************************************************************************)
BetResults == {"pending", "won", "lost", "push", "void"}

\* str.lower() on the outcome texts the requests carry.
lower(text) ==
    CASE text = "WON" -> "won"
      [] text = "Lost" -> "lost"
      [] OTHER -> text

\* BetResult(value): the member, or None for the ValueError.
bet_result(value) == IF value \in BetResults THEN Some(value) ELSE None

\* What a request's session reads and commits.
Database == [recs |-> recs, bets |-> bets, events |-> events]

\* recommendation.event, Event.query.get(event_id): an Optional row.
event_of(evs, event_id) == {e \in evs : e.id = event_id}

\* Recommendation.query.get(rec_id): an Optional id.
recommendation_of(stored, rec_id) ==
    IF rec_id # None /\ The(rec_id) \in DOMAIN stored THEN rec_id ELSE None

\* Recommendation.query.filter_by(event_id=...), event.recommendations.
recommendations_of(stored, event_id) ==
    {i \in DOMAIN stored : stored[i].event_id = event_id}

\* "if (home_score_val is None or away_score_val is None) and event": the
\* scores of the request, each missing one taken from the event.
scores_or_event(home_score, away_score, event) ==
    IF (home_score = None \/ away_score = None) /\ event # None
    THEN [home |-> IF home_score = None THEN The(event).home_score ELSE home_score,
          away |-> IF away_score = None THEN The(event).away_score ELSE away_score]
    ELSE [home |-> home_score, away |-> away_score]

\* "for bet in recommendation.bets": the result on every Bet of the
\* Recommendation, settled_at where it was None.
settle_bets(bs, rec_id, rec_result, now) ==
    [k \in DOMAIN bs |->
        IF bs[k].recommendation_id = rec_id
        THEN [bs[k] EXCEPT !.result = rec_result,
                           !.settled_at = IF @ = None THEN Some(now) ELSE @]
        ELSE bs[k]]

\* The result columns of an Event set by a resolution.
score_event(evs, event_id, home_score, away_score, now) ==
    {IF e.id = event_id
     THEN [e EXCEPT !.home_score = home_score, !.away_score = away_score,
                    !.resolved_at = Some(now)]
     ELSE e : e \in evs}

\* The columns a resolution sets on a Recommendation.
settle_status(rec, rec_result) ==
    IF rec_result # "pending" THEN "settled" ELSE rec.status
resolved(rec, rec_result, closing_price, now) ==
    [rec EXCEPT !.resolved_result = Some(rec_result),
                !.resolved_at = Some(now),
                !.closing_price = closing_price,
                !.status = settle_status(rec, rec_result)]

Response(db, code) ==
    [recs |-> db.recs, bets |-> db.bets, events |-> db.events, code |-> code]

\* POST /recommendations/<rec_id>/bets
log_bet(db, rec_id, data, now) ==
    IF rec_id \notin DOMAIN db.recs THEN Response(db, 404)
    ELSE
    LET recommendation == db.recs[rec_id]
        stake == IF data.stake = None THEN 1 ELSE The(data.stake)
        price == IF data.price # None /\ The(data.price) # 0 THEN The(data.price)
                 ELSE recommendation.details.current_price
        bet == [sportsbook_id     |-> recommendation.sportsbook_id,
                recommendation_id |-> rec_id,
                event_id          |-> recommendation.event_id,
                bet_side          |-> recommendation.bet_side,
                placed_at         |-> now,
                stake             |-> stake,
                price             |-> price,
                result            |-> "pending",
                settled_at        |-> None]
    IN  IF stake <= 0 THEN Response(db, 400)
        ELSE Response([db EXCEPT !.bets = Append(@, bet)], 200)

\* The result of a bet on bet_side for the scores home : away, as
\* resolve_recommendation infers it.
inferred_result(bet_side, home, away) ==
    IF home = away THEN "push"
    ELSE IF bet_side = "home" THEN (IF home > away THEN "won" ELSE "lost")
    ELSE IF bet_side = "away" THEN (IF ~ (home > away) THEN "won" ELSE "lost")
    ELSE "pending"

\* POST /recommendations/<rec_id>/resolve
resolve_recommendation(db, rec_id, data, now) ==
    IF rec_id \notin DOMAIN db.recs THEN Response(db, 404)
    ELSE
    LET recommendation == db.recs[rec_id]
        event  == event_of(db.events, recommendation.event_id)
        scores == scores_or_event(data.home_score, data.away_score, event)
        given  == data.outcome # None /\ The(data.outcome) # ""
        parsed == bet_result(lower(The(data.outcome)))
    IN  IF given /\ parsed = None THEN Response(db, 400)
        ELSE IF ~ given /\ (scores.home = None \/ scores.away = None)
        THEN Response(db, 400)
        ELSE
        LET resolved_result ==
                IF given THEN The(parsed)
                ELSE inferred_result(recommendation.bet_side,
                                     The(scores.home), The(scores.away))
        IN  Response(
              [recs   |-> [db.recs EXCEPT ![rec_id] =
                              resolved(@, resolved_result, data.closing_price, now)],
               bets   |-> settle_bets(db.bets, rec_id, resolved_result, now),
               events |-> IF event = None THEN db.events
                          ELSE score_event(db.events, The(event).id,
                                           scores.home, scores.away, now)],
              200)

\* The event a bulk_resolve item refers to: the one of its Recommendation,
\* else the one of its event_id; Optional.
item_event(db, item) ==
    LET recommendation == recommendation_of(db.recs, item.id)
        event == IF recommendation = None THEN None
                 ELSE event_of(db.events, db.recs[The(recommendation)].event_id)
    IN  IF event = None /\ item.event_id # None
        THEN event_of(db.events, The(item.event_id))
        ELSE event

\* "if event and event.commence_time and event.commence_time > now"
not_started(db, item, now) ==
    LET event == item_event(db, item)
    IN  /\ event # None
        /\ The(event).commence_time # None
        /\ The(The(event).commence_time) > now

\* The result bulk_resolve gives one Recommendation for the outcome of the
\* entry and the scores of the entry; "raise" for the TypeError of
\* comparing None with a number.
applied_result(outcome, bet_side, home_score, away_score) ==
    IF outcome # "won" THEN outcome
    ELSE IF home_score = away_score THEN "push"
    ELSE IF home_score = None \/ away_score = None THEN "raise"
    ELSE LET home_won_local == The(home_score) > The(away_score)
         IN  IF bet_side = "home" /\ home_won_local THEN "won"
             ELSE IF bet_side = "away" /\ ~ home_won_local THEN "won"
             ELSE "lost"

\* One pass of the loop "for entry in items" over the session db, which
\* also counts the updated rows and notes an exception.
bulk_entry(db, entry, now) ==
    LET found  == recommendation_of(db.recs, entry.id)
        event  == item_event(db, entry)
        of_event == IF event = None THEN {}
                    ELSE recommendations_of(db.recs, The(event).id)
        recommendation ==
            IF found = None /\ of_event # {}
            THEN Some(CHOOSE i \in of_event : \A k \in of_event : i <= k)
            ELSE found
        scores == scores_or_event(entry.home_score, entry.away_score, event)
        given  == entry.outcome # None /\ The(entry.outcome) # ""
        parsed == bet_result(lower(The(entry.outcome)))
    IN  IF recommendation = None THEN db
        ELSE IF given /\ parsed = None THEN db
        ELSE IF ~ given /\ (scores.home = None \/ scores.away = None) THEN db
        ELSE
        LET outcome == IF given THEN The(parsed)
                       ELSE IF scores.home = scores.away THEN "push" ELSE "won"
            target_event ==
                IF event # None THEN event
                ELSE event_of(db.events, db.recs[The(recommendation)].event_id)
        IN  IF target_event = None THEN db
            ELSE
            LET target_recommendations ==
                    recommendations_of(db.recs, The(target_event).id)
                rec_result(i) ==
                    applied_result(outcome, db.recs[i].bet_side,
                                   entry.home_score, entry.away_score)
                settled(bs) ==
                    [k \in DOMAIN bs |->
                        IF bs[k].recommendation_id \in target_recommendations
                        THEN settle_bets(bs, bs[k].recommendation_id,
                                         rec_result(bs[k].recommendation_id), now)[k]
                        ELSE bs[k]]
            IN  IF \E i \in target_recommendations : rec_result(i) = "raise"
                THEN [db EXCEPT !.raised = TRUE]
                ELSE [recs    |-> [i \in DOMAIN db.recs |->
                                      IF i \in target_recommendations
                                      THEN resolved(db.recs[i], rec_result(i),
                                                    entry.closing_price, now)
                                      ELSE db.recs[i]],
                      bets    |-> settled(db.bets),
                      events  |-> score_event(db.events, The(target_event).id,
                                              entry.home_score, entry.away_score, now),
                      updated |-> db.updated + Cardinality(target_recommendations),
                      raised  |-> db.raised]

RECURSIVE bulk_entries(_, _, _, _)
bulk_entries(db, items, k, now) ==
    IF k > Len(items) \/ db.raised THEN db
    ELSE bulk_entries(bulk_entry(db, items[k], now), items, k + 1, now)

\* POST /recommendations/bulk_resolve: the items of games that have started
\* are applied in order and committed together when any row was updated; an
\* exception ends the request with nothing committed.
bulk_resolve_recommendations(db, items, now) ==
    LET Started(item) == ~ not_started(db, item, now)
        eligible == SelectSeq(items, Started)
    IN  IF eligible = << >> THEN Response(db, 400)
        ELSE
        LET out == bulk_entries([recs |-> db.recs, bets |-> db.bets,
                                 events |-> db.events, updated |-> 0,
                                 raised |-> FALSE], eligible, 1, now)
        IN  IF out.raised THEN Response(db, 500)
            ELSE IF out.updated = 0 THEN Response(db, 200)
            ELSE Response(out, 200)

\* The requests.  Each reads the wall clock once if it gets that far; the
\* routes are called while the clock has been read fewer than MaxReadings
\* times, and at most MaxBets bets are logged.
MaxReadings == 3
MaxBets == 1

Answer(out, read) ==
    /\ recs' = out.recs
    /\ bets' = out.bets
    /\ events' = out.events
    /\ clock' = IF read THEN clock + 1 ELSE clock
    /\ UNCHANGED <<cfg, call, result>>
    /\ UNCHANGED <<bookmakers, sportsbooks, snapshots, wk, cycles, last>>
    /\ UNCHANGED <<gatewayVars, converterVars>>

LogBet(rec_id, data) ==
    /\ clock < MaxReadings
    /\ Len(bets) < MaxBets
    /\ LET out == log_bet(Database, rec_id, data, utcnow(clock))
       IN  Answer(out, out.code = 200)

Resolve(rec_id, data) ==
    /\ clock < MaxReadings
    /\ LET out == resolve_recommendation(Database, rec_id, data, utcnow(clock))
       IN  Answer(out, out.code # 404)

BulkResolve(items) ==
    /\ clock < MaxReadings
    /\ items # << >>
    /\ Answer(bulk_resolve_recommendations(Database, items, utcnow(clock)), TRUE)

\* A committed OddsSnapshot row as the detector reads it.
StoredSnapshot(row) ==
    [id |-> SnapshotKey(row), event_id |-> row.event_id,
     sportsbook_id |-> row.sportsbook_id, fetched_at |-> row.fetched_at,
     home_price |-> row.home_price, away_price |-> row.away_price]

\* The committed snapshot before row for the same (event, sportsbook):
\* the latest of the earlier ones, Optional.
PrecedingSnapshot(row) ==
    LET earlier == {x \in snapshots : /\ x.event_id = row.event_id
                                      /\ x.sportsbook_id = row.sportsbook_id
                                      /\ x.fetched_at < row.fetched_at}
    IN  {x \in earlier : \A y \in earlier : y.fetched_at <= x.fetched_at}

\* The detector's caller evaluates a committed snapshot against the one
\* before it.
DetectStored ==
    \E row \in snapshots :
        Detect(StoredSnapshot(row), {StoredSnapshot(x) : x \in PrecedingSnapshot(row)})

(***************************************************************************)
(* SpecWorkflow: ingestion cycles of one worker under the allow-list       *)
(* {dk, fd}, the detector on the committed snapshots, and the requests of  *)
(* the resolution interface, in any order.                                 *)
(***************************************************************************)
WorkflowBatchIds == {1, 4}
WorkflowRecIds == {1, 2}
WorkflowEventId == EventId("theoddsapi", Batch(1)[1].event)
Games == {[home_score |-> None, away_score |-> None],
          [home_score |-> Some(2), away_score |-> Some(1)],
          [home_score |-> Some(2), away_score |-> Some(2)],
          [home_score |-> Some(2), away_score |-> None]}
BetRequests == {[stake |-> s, price |-> None] : s \in {None, Some(0)}}
ResolveRequests ==
    {[outcome |-> o, home_score |-> g.home_score, away_score |-> g.away_score,
      closing_price |-> None] :
        o \in {None, Some("WON"), Some("pending"), Some("settled")}, g \in Games}
BulkItems ==
    {[id |-> id, event_id |-> ev, outcome |-> o, home_score |-> g.home_score,
      away_score |-> g.away_score, closing_price |-> None] :
        id \in {None, Some(1)}, ev \in {None, Some(WorkflowEventId)},
        o \in {None, Some("won"), Some("Lost"), Some("settled")}, g \in Games}
BulkRequests ==
    {<<item>> : item \in BulkItems} \cup
    {<<item, [item EXCEPT !.outcome = Some("void")]>> :
        item \in {x \in BulkItems : x.id # None /\ x.event_id = None}}

WorkflowInit ==
    /\ cfg = Config(20, 2, Two, Three)
    /\ recs = << >>
    /\ call = None
    /\ result = None
    /\ bookmakers = {"dk", "fd"}
    /\ sportsbooks = {}
    /\ events = {}
    /\ snapshots = {}
    /\ wk = [w \in Workers |-> IdleWorker]
    /\ clock = 0
    /\ cycles = 0
    /\ last = None
    /\ WorkflowIdle
    /\ GatewayIdle
    /\ ConverterIdle

WorkflowNext ==
    \/ \E b \in WorkflowBatchIds : StartCycle("w1", b)
    \/ EnsureQuery("w1")
    \/ EnsureCommit("w1")
    \/ UpsertQuery("w1")
    \/ UpsertWrite("w1")
    \/ UpsertFlush("w1")
    \/ BookStep("w1")
    \/ Commit("w1")
    \/ DetectStored
    \/ PersistRecommendation
    \/ NoSignal
    \/ \E rec_id \in WorkflowRecIds : \E data \in BetRequests : LogBet(rec_id, data)
    \/ \E rec_id \in WorkflowRecIds : \E data \in ResolveRequests : Resolve(rec_id, data)
    \/ \E items \in BulkRequests : BulkResolve(items)

SpecWorkflow == WorkflowInit /\ [][WorkflowNext]_vars

(***************************************************************************)
(* SpecFrame: the ingestion cycles and the detector of SpecWorkflow with   *)
(* one bet request and a few resolutions.                                  *)
(***************************************************************************)
FrameBet == [stake |-> None, price |-> None]
FrameResolutions ==
    {[outcome |-> None, home_score |-> Some(2), away_score |-> Some(1),
      closing_price |-> None],
     [outcome |-> Some("void"), home_score |-> None, away_score |-> None,
      closing_price |-> None]}
FrameItem == [id |-> None, event_id |-> Some(WorkflowEventId), outcome |-> None,
              home_score |-> Some(1), away_score |-> Some(2), closing_price |-> None]

FrameNext ==
    \/ \E b \in WorkflowBatchIds : StartCycle("w1", b)
    \/ EnsureQuery("w1")
    \/ EnsureCommit("w1")
    \/ UpsertQuery("w1")
    \/ UpsertWrite("w1")
    \/ UpsertFlush("w1")
    \/ BookStep("w1")
    \/ Commit("w1")
    \/ DetectStored
    \/ PersistRecommendation
    \/ NoSignal
    \/ LogBet(1, FrameBet)
    \/ \E data \in FrameResolutions : Resolve(1, data)
    \/ BulkResolve(<<FrameItem>>)

SpecFrame == WorkflowInit /\ [][FrameNext]_vars

(***************************************************************************)
(* SpecOdds: one call of the converter for every argument.                 *)
(***************************************************************************)
OddsInit ==
    /\ DetectorIdle
    /\ StoreIdle
    /\ WorkflowIdle
    /\ GatewayIdle
    /\ conv \in {PendingConversion(o) : o \in ConverterInputs}

OddsNext == Convert

SpecOdds == OddsInit /\ [][OddsNext]_vars

(***************************************************************************)
(* SpecEval: single evaluations over a wide range of prices and settings,  *)
(* against an empty table or one stored Recommendation.                    *)
(***************************************************************************)
EvalPrices == {None} \cup {Some(p) : p \in {-150, -110, 130, 160}}
EvalConfigs ==
    {Config(th, cd, m[1], m[2]) :
        th \in {20, 40}, cd \in {0, 2}, m \in {<<Two, Three>>, <<OneAndHalf, Two>>}}
\* The stored Recommendation was triggered at minute 0.
EvalTimes == {2, 3}

\* A Recommendation stored by an earlier evaluation.
StoredRecommendation(sportsbook, side, at) ==
    [event_id |-> 1, sportsbook_id |-> sportsbook, snapshot_id |-> 1, triggered_at |-> at,
     direction |-> "reverse", movement_cents |-> 30, edge |-> 502,
     confidence |-> "low", bet_side |-> side, status |-> "pending",
     details |-> [previous_price |-> 160, current_price |-> 130,
                  previous_probability |-> decimal_str(384615, 6),
                  current_probability |-> decimal_str(434783, 6),
                  probability_delta |-> decimal_str(502, 4), threshold_cents |-> 20],
     closing_price |-> None, resolved_result |-> None, resolved_at |-> None]

EvalInit ==
    /\ cfg \in EvalConfigs
    /\ recs \in {<< >>} \cup {<<StoredRecommendation(1, side, 0)>> : side \in Sides}
                     \cup {<<StoredRecommendation(2, "away", 0)>>}
    /\ call = None
    /\ result = None
    /\ StoreIdle
    /\ WorkflowIdle
    /\ GatewayIdle
    /\ ConverterIdle

EvalNext ==
    \E s \in NewSnapshots(EvalTimes, EvalPrices \X EvalPrices) :
        \E p \in PreviousSnapshots(EvalPrices \X EvalPrices) : Detect(s, p)

SpecEval == EvalInit /\ [][EvalNext]_vars

(***************************************************************************)
(* SpecRound: single evaluations over long prices, whose probabilities     *)
(* differ by less than the rounding unit, and over prices between -100 and *)
(* +100, where a lower price is not a higher probability.                  *)
(***************************************************************************)
RoundQuotes ==
    {<<Some(-2000), Some(1500)>>, <<Some(-2000), Some(1499)>>,
     <<Some(1500), Some(-2000)>>, <<Some(1499), Some(-2000)>>,
     <<Some(-300), Some(50)>>, <<Some(-300), Some(-50)>>,
     <<Some(-150), Some(130)>>, <<Some(-150), Some(160)>>}
RoundConfigs == {Config(th, cd, Two, Three) : th \in {1, 20}, cd \in {0, 2}}

RoundInit ==
    /\ cfg \in RoundConfigs
    /\ recs = << >>
    /\ call = None
    /\ result = None
    /\ StoreIdle
    /\ WorkflowIdle
    /\ GatewayIdle
    /\ ConverterIdle

RoundNext ==
    \E s \in NewSnapshots(EvalTimes, RoundQuotes) :
        \E p \in PreviousSnapshots(RoundQuotes) : Detect(s, p)

SpecRound == RoundInit /\ [][RoundNext]_vars

(***************************************************************************)
(* SpecDetect: sequences of evaluations, each returned Recommendation      *)
(* stored before the next evaluation, snapshots in any fetch-time order.   *)
(***************************************************************************)
DetectQuotes == {<<Some(-150), Some(160)>>, <<Some(-150), Some(130)>>,
                 <<Some(160), Some(-150)>>, <<Some(130), Some(-150)>>}
DetectConfigs == {Config(20, cd, Two, Three) : cd \in {0, 1, 2}}

DetectInit ==
    /\ cfg \in DetectConfigs
    /\ recs = << >>
    /\ call = None
    /\ result = None
    /\ StoreIdle
    /\ WorkflowIdle
    /\ GatewayIdle
    /\ ConverterIdle

DetectNext ==
    \/ \E s \in NewSnapshots(Times, DetectQuotes) :
           \E p \in PreviousSnapshots(DetectQuotes) : Detect(s, p)
    \/ PersistRecommendation
    \/ NoSignal

SpecDetect == DetectInit /\ [][DetectNext]_vars

(***************************************************************************)
(* SpecTwice: a snapshot pair evaluated, and evaluated again after the     *)
(* wall clock has moved on, against the same configuration and table.      *)
(***************************************************************************)
TwiceConfigs == {Config(20, cd, Two, Three) : cd \in {0, 2}}

TwiceInit ==
    /\ cfg \in TwiceConfigs
    /\ recs \in {<< >>} \cup {<<StoredRecommendation(1, side, 0)>> : side \in Sides}
    /\ call = None
    /\ result = None
    /\ StoreIdle
    /\ WorkflowIdle
    /\ GatewayIdle
    /\ ConverterIdle

TwiceNext ==
    \/ \E s \in NewSnapshots(EvalTimes, DetectQuotes) :
           \E p \in PreviousSnapshots(DetectQuotes) : Evaluate(s, p)
    \/ Tick

SpecTwice == TwiceInit /\ [][TwiceNext]_vars

(***************************************************************************)
(* Claims about the detector.                                              *)
(***************************************************************************)

\* The side with the strictly lower implied probability of a quote, by exact
\* rational arithmetic on 100/(p+100) and |p|/(|p|+100); "none" on a tie or
\* a missing price.
ExactNum(p) == IF p > 0 THEN 100 ELSE -p
ExactDen(p) == IF p > 0 THEN p + 100 ELSE -p + 100
LowerSide(s) ==
    IF s.home_price = None \/ s.away_price = None THEN "none"
    ELSE LET h == The(s.home_price)
             a == The(s.away_price)
         IN  IF ExactNum(h) * ExactDen(a) < ExactNum(a) * ExactDen(h) THEN "home"
             ELSE IF ExactNum(h) * ExactDen(a) > ExactNum(a) * ExactDen(h) THEN "away"
             ELSE "none"

\* The latest call compared a previous snapshot quoting prev with a new one
\* quoting new.
CallQuotes(prev, new) ==
    \E c \in call :
        /\ c.previous_snapshot # None
        /\ The(c.previous_snapshot).home_price = prev[1]
        /\ The(c.previous_snapshot).away_price = prev[2]
        /\ c.snapshot.home_price = new[1]
        /\ c.snapshot.away_price = new[2]

\* The call returned a Recommendation for side, of size cents and the label.
Returned(side, cents, label) ==
    \E r \in result :
        r.bet_side = side /\ r.movement_cents = cents /\ r.confidence = label

ExampleConfig == Config(20, 0, Two, Three)
QuoteAway130 == <<Some(-150), Some(130)>>
QuoteAway160 == <<Some(-150), Some(160)>>

\* C1 as stated: with threshold 20, cooldown 0 and multipliers 2.0/3.0, the
\* pair previous (home -150, away +130), new (home -150, away +160) returns
\* a Recommendation with bet_side "away", movement_cents 30, confidence "low".
C1_ExampleAsStated ==
    (cfg = ExampleConfig /\ CallQuotes(QuoteAway130, QuoteAway160))
        => Returned("away", 30, "low")

\* C1 amended: the Recommendation (away, 30, low) is returned for the pair in
\* the other order, previous away +160 and new away +130; for the pair as
\* stated the movement size is -30 and the detector returns no signal.
C1_ExampleAmended ==
    cfg = ExampleConfig =>
        /\ CallQuotes(QuoteAway160, QuoteAway130) => Returned("away", 30, "low")
        /\ CallQuotes(QuoteAway130, QuoteAway160) => result = None

C1_Witness ==
    /\ cfg = ExampleConfig
    /\ CallQuotes(QuoteAway160, QuoteAway130)
    /\ Returned("away", 30, "low")

\* The underdog (the side of strictly lower implied probability) of the
\* previous snapshot is not the underdog of the new snapshot.
UnderdogFlips(c) ==
    /\ c.previous_snapshot # None
    /\ LowerSide(The(c.previous_snapshot)) \in Sides
    /\ LowerSide(c.snapshot) \in Sides
    /\ LowerSide(The(c.previous_snapshot)) # LowerSide(c.snapshot)

\* C9: whenever the underdog side of the previous snapshot differs from the
\* underdog side of the new snapshot, the detector returns no signal, for
\* every combination of prices, threshold and cooldown.
C9_UnderdogFlip ==
    \A c \in call : UnderdogFlips(c) => result = None

\* A flip whose price delta on the previous underdog's side meets the
\* threshold, with no stored Recommendation that could suppress it.
C9_Witness ==
    \E c \in call :
        /\ UnderdogFlips(c)
        /\ recs = << >>
        /\ LET side == LowerSide(The(c.previous_snapshot))
               prev == IF side = "home" THEN The(c.previous_snapshot).home_price
                                        ELSE The(c.previous_snapshot).away_price
               cur  == IF side = "home" THEN c.snapshot.home_price
                                        ELSE c.snapshot.away_price
           IN  The(prev) - The(cur) >= cfg.MOVEMENT_THRESHOLD_CENTS
        /\ result = None

\* Two rows of the recommendations table are for the same (event,
\* sportsbook, bet_side).
SameTriple(a, b) ==
    /\ a.event_id = b.event_id
    /\ a.sportsbook_id = b.sportsbook_id
    /\ a.bet_side = b.bet_side

Distance(a, b) == IF a >= b THEN a - b ELSE b - a

\* C2: with cooldown C > 0 and every returned Recommendation stored before
\* the next evaluation, no two stored Recommendations of the same (event,
\* sportsbook, bet_side) have trigger times that differ by C minutes or less.
C2_CooldownInvariant ==
    cfg.MOVEMENT_COOLDOWN_MINUTES > 0 =>
        \A i, j \in DOMAIN recs :
            (i # j /\ SameTriple(recs[i], recs[j])) =>
                Distance(recs[i].triggered_at, recs[j].triggered_at)
                    > cfg.MOVEMENT_COOLDOWN_MINUTES

\* Two Recommendations of one triple are stored under a positive cooldown.
C2_Witness ==
    /\ cfg.MOVEMENT_COOLDOWN_MINUTES > 0
    /\ \E i, j \in DOMAIN recs : i # j /\ SameTriple(recs[i], recs[j])

\* A stored Recommendation r covers the call c: same event and sportsbook,
\* the side the new snapshot favors, and fetch time f with t <= f <= t + C.
Covers(r, c) ==
    /\ r.event_id = c.snapshot.event_id
    /\ r.sportsbook_id = c.snapshot.sportsbook_id
    /\ r.bet_side = LowerSide(c.snapshot)
    /\ r.triggered_at <= c.snapshot.fetched_at
    /\ c.snapshot.fetched_at <= r.triggered_at + cfg.MOVEMENT_COOLDOWN_MINUTES

\* C10: with cooldown C > 0, once a Recommendation for (event, sportsbook,
\* side) with trigger time t is stored, a call for a snapshot of that event
\* and sportsbook favoring that side with t <= fetch time <= t + C returns no
\* signal; so does a second evaluation of the same snapshot pair.
C10_RepeatSuppression ==
    cfg.MOVEMENT_COOLDOWN_MINUTES > 0 =>
        \A c \in call :
            (\E i \in DOMAIN recs : Covers(recs[i], c)) => result = None

\* The pair that produced a stored Recommendation is evaluated again: the
\* movement qualifies as before and the call returns no signal.
C10_Witness ==
    /\ cfg.MOVEMENT_COOLDOWN_MINUTES > 0
    /\ result = None
    /\ \E c \in call : \E i \in DOMAIN recs :
           /\ Covers(recs[i], c)
           /\ c.previous_snapshot # None
           /\ recs[i].snapshot_id = c.snapshot.id
           /\ recs[i].triggered_at = c.snapshot.fetched_at
           /\ \E m \in evaluate_movement(c.snapshot, The(c.previous_snapshot)) :
                  /\ m.movement_cents >= cfg.MOVEMENT_THRESHOLD_CENTS
                  /\ m.previous_price = recs[i].details.previous_price
                  /\ m.current_price = recs[i].details.current_price


\* The call c passes every step before the cooldown filter: its movement
\* qualifies and meets the threshold.  The value is the MovementResult.
Qualifying(c) ==
    IF c.previous_snapshot = None THEN None
    ELSE {m \in evaluate_movement(c.snapshot, The(c.previous_snapshot)) :
              m.movement_cents >= cfg.MOVEMENT_THRESHOLD_CENTS}

\* The stored Recommendation r is for the triple of call c and side, with a
\* trigger time inside [fetch time - cooldown, fetch time].
InsideWindow(r, c, side) ==
    /\ r.event_id = c.snapshot.event_id
    /\ r.sportsbook_id = c.snapshot.sportsbook_id
    /\ r.bet_side = side
    /\ c.snapshot.fetched_at - cfg.MOVEMENT_COOLDOWN_MINUTES <= r.triggered_at
    /\ r.triggered_at <= c.snapshot.fetched_at

\* C11 (as stated): a call that passes every step before the cooldown filter
\* returns no signal only if some stored Recommendation of its (event,
\* sportsbook, bet_side) has a trigger time inside the window [fetch time -
\* cooldown, fetch time]; one older than the window, or one triggered after
\* the fetch time, does not suppress it.
C11_WindowBounds ==
    \A c \in call : \A m \in Qualifying(c) :
        result = None => \E i \in DOMAIN recs : InsideWindow(recs[i], c, m.bet_side)

\* The price a snapshot quotes for a side.
SidePrice(s, side) == IF side = "home" THEN The(s.home_price) ELSE The(s.away_price)

\* The probability of price p rounded to 6 decimals, in millionths.
Rounded6(p) == Quantize6(Probability[Some(p)])

\* In the call c both snapshots are priced and have the same underdog, whose
\* movement size, previous price minus current price, is positive.
PositiveMovement(c) ==
    /\ c.previous_snapshot # None
    /\ LowerSide(The(c.previous_snapshot)) \in Sides
    /\ LowerSide(c.snapshot) = LowerSide(The(c.previous_snapshot))
    /\ SidePrice(The(c.previous_snapshot), LowerSide(c.snapshot))
           > SidePrice(c.snapshot, LowerSide(c.snapshot))

\* The probability delta of the call: the difference of the underdog's two
\* probabilities, each rounded to 6 decimals, in millionths.
DeltaMillionths(c) ==
    Rounded6(SidePrice(c.snapshot, LowerSide(c.snapshot)))
        - Rounded6(SidePrice(The(c.previous_snapshot), LowerSide(c.snapshot)))

\* C17: when the underdog's movement size is positive but the probability
\* delta, rounded to 4 decimals (half a ten-thousandth, 50 millionths, rounds
\* to the even neighbour 0), is zero or negative, the detector returns no
\* signal.
C17_RoundingGuard ==
    \A c \in call :
        (PositiveMovement(c) /\ DeltaMillionths(c) <= 50) => result = None

\* The away underdog went from +1500 to +1499 under threshold 1: movement
\* size 1, probability delta 0.000039, which rounds to 0.0000; no signal.
C17_Witness ==
    /\ cfg.MOVEMENT_THRESHOLD_CENTS = 1
    /\ cfg.MOVEMENT_COOLDOWN_MINUTES = 0
    /\ CallQuotes(<<Some(-2000), Some(1500)>>, <<Some(-2000), Some(1499)>>)
    /\ \E c \in call : PositiveMovement(c) /\ DeltaMillionths(c) = 39
    /\ result = None

\* C18: every Recommendation the detector returns has bet_side equal to the
\* underdog side of both the previous and the new snapshot, movement_cents
\* equal to the previous underdog price minus the current one, positive and
\* at least the configured threshold, and a positive edge; a call for which
\* one of these fails returns no signal.
C18_SignalPreconditions ==
    \A c \in call : \A r \in result :
        /\ c.previous_snapshot # None
        /\ r.bet_side \in Sides
        /\ r.bet_side = LowerSide(The(c.previous_snapshot))
        /\ r.bet_side = LowerSide(c.snapshot)
        /\ r.movement_cents = SidePrice(The(c.previous_snapshot), r.bet_side)
                                  - SidePrice(c.snapshot, r.bet_side)
        /\ r.movement_cents > 0
        /\ r.movement_cents >= cfg.MOVEMENT_THRESHOLD_CENTS
        /\ r.edge > 0
        /\ 100 * r.edge - 50 <= DeltaMillionths(c)
        /\ DeltaMillionths(c) <= 100 * r.edge + 50

\* A Recommendation for the home underdog was returned under threshold 40.
C18_Witness ==
    /\ cfg.MOVEMENT_THRESHOLD_CENTS = 40
    /\ \E r \in result : r.bet_side = "home" /\ r.movement_cents = 240
    /\ CallQuotes(<<Some(130), Some(-150)>>, <<Some(-110), Some(-150)>>)

Rank(label) == CASE label = "low" -> 1 [] label = "medium" -> 2 [] label = "high" -> 3

\* The label the rule of the claim gives movement size m, with the
\* multipliers as exact fractions.
RuleLabel(m) ==
    LET T      == cfg.MOVEMENT_THRESHOLD_CENTS
        medium == cfg.MOVEMENT_MEDIUM_MULTIPLIER
        high   == cfg.MOVEMENT_HIGH_MULTIPLIER
    IN  IF m * high.d >= T * high.n THEN "high"
        ELSE IF m * medium.d >= T * medium.n THEN "medium"
        ELSE "low"

\* C19: the confidence of every returned Recommendation of movement size m
\* is "high" if m >= T * high, otherwise "medium" if m >= T * medium,
\* otherwise "low"; it is one of the three labels, and under the same
\* configuration a larger movement size never gets a lower label nor a
\* smaller one a higher label.
C19_ConfidenceLabel ==
    \A r \in result :
        /\ r.confidence \in {"low", "medium", "high"}
        /\ r.confidence = RuleLabel(r.movement_cents)
        /\ \A m \in 1..(4 * cfg.MOVEMENT_THRESHOLD_CENTS) :
               LET label == confidence_bucket(m, cfg.MOVEMENT_THRESHOLD_CENTS,
                                              cfg.MOVEMENT_MEDIUM_MULTIPLIER,
                                              cfg.MOVEMENT_HIGH_MULTIPLIER)
               IN  /\ m >= r.movement_cents => Rank(label) >= Rank(r.confidence)
                   /\ m <= r.movement_cents => Rank(label) <= Rank(r.confidence)

\* Movement size 30 under threshold 20 and multipliers 1.5 and 2.0 sits on
\* the medium boundary (30 = 20 * 1.5) and is labelled "medium".
C19_Witness ==
    /\ cfg.MOVEMENT_THRESHOLD_CENTS = 20
    /\ cfg.MOVEMENT_MEDIUM_MULTIPLIER = OneAndHalf
    /\ \E r \in result : r.movement_cents = 30 /\ r.confidence = "medium"

\* C20: every returned Recommendation references the new snapshot and its
\* event and sportsbook, is triggered at that snapshot's fetch time, has
\* direction reverse and status pending, and its details hold the previous
\* and current underdog price, their probabilities rounded to 6 decimals as
\* text, the probability delta as text and the configured threshold.
C20_RecommendationContents ==
    \A c \in call : \A r \in result :
        /\ c.previous_snapshot # None
        /\ r.snapshot_id = c.snapshot.id
        /\ r.event_id = c.snapshot.event_id
        /\ r.sportsbook_id = c.snapshot.sportsbook_id
        /\ r.triggered_at = c.snapshot.fetched_at
        /\ r.direction = "reverse"
        /\ r.status = "pending"
        /\ r.details.previous_price = SidePrice(The(c.previous_snapshot), r.bet_side)
        /\ r.details.current_price = SidePrice(c.snapshot, r.bet_side)
        /\ r.details.previous_probability =
               decimal_str(Rounded6(SidePrice(The(c.previous_snapshot), r.bet_side)), 6)
        /\ r.details.current_probability =
               decimal_str(Rounded6(SidePrice(c.snapshot, r.bet_side)), 6)
        /\ r.details.probability_delta = decimal_str(r.edge, 4)
        /\ r.details.threshold_cents = cfg.MOVEMENT_THRESHOLD_CENTS

\* A Recommendation was returned for a new snapshot fetched at minute 3 whose
\* previous snapshot was fetched at minute 0.
C20_Witness ==
    \E c \in call : \E r \in result :
        /\ c.snapshot.fetched_at = 3
        /\ r.triggered_at = 3
        /\ r.snapshot_id = 2
        /\ r.details.previous_price = 160
        /\ r.details.current_price = 130

C3_IdempotentReingestion ==
    \A w \in Workers :
        LET r == wk[w] IN
        (r.pc = "done" /\ r.prev # None /\ The(r.prev).batch = r.batch)
            => /\ r.inserted = 0
               /\ r.skipped = The(r.prev).inserted
               /\ snapshots = The(r.prev).snapshots

\* The bookmaker entry worker w is at passes the filters of lines 72-82, its
\* last_update parses, and its key is the key of a committed row or of a row
\* this batch added earlier.
DuplicateEntry(w) ==
    LET r == wk[w] IN
    /\ r.pc = "book"
    /\ LET bookmaker == CurrentEntries(r)[r.j]
           at        == parse_datetime(bookmaker.last_update)
       IN  /\ bookmakers = {} \/ bookmaker.key \in bookmakers
           /\ bookmaker.key \in r.lookup
           /\ \E k \in DOMAIN bookmaker.markets : bookmaker.markets[k].key = "h2h"
           /\ at # None
           /\ <<CurrentEventId(r), bookmaker.key, CurrentPayload(r).provider,
                "h2h", The(at)>>
                  \in SnapshotKeys \cup {SnapshotKey(x) : x \in Range(r.sn)}

\* C4: under serialized cycles no two committed OddsSnapshot rows share the
\* key (event, sportsbook, provider, market, fetch time), and the step over a
\* bookmaker entry whose key already exists, from an earlier cycle or from
\* an earlier entry of the batch, adds 1 to skipped and inserts nothing.
C4_SnapshotDedup ==
    /\ [](\A a, b \in snapshots : SnapshotKey(a) = SnapshotKey(b) => a = b)
    /\ [][\A w \in Workers :
              (DuplicateEntry(w) /\ wk'[w] # wk[w])
                  => /\ wk'[w].skipped = wk[w].skipped + 1
                     /\ wk'[w].inserted = wk[w].inserted
                     /\ wk'[w].sn = wk[w].sn
                     /\ wk'[w].err = ""]_vars

\* Two runs of batch 3 have ended: the first skipped the second entry of the
\* batch, the second skipped both entries.
C4_Witness ==
    /\ wk["w1"].pc = "done"
    /\ wk["w1"].batch = 3
    /\ wk["w1"].skipped = 2
    /\ wk["w1"].prev # None
    /\ The(wk["w1"].prev).batch = 3
    /\ The(wk["w1"].prev).inserted = 1
    /\ The(wk["w1"].prev).skipped = 1

\* C5: a commit at the end of persist_snapshot_batch whose flush breaks a
\* uniqueness constraint leaves the committed events and snapshots as they
\* were, keeps none of the session's Event or OddsSnapshot writes, and ends
\* the call with IntegrityError.
C5_AllOrNothing ==
    [][\A w \in Workers :
           (wk[w].pc = "commit" /\ FlushViolates(wk[w]) /\ wk'[w] # wk[w])
               => /\ events' = events
                  /\ snapshots' = snapshots
                  /\ wk'[w].pc = "raised"
                  /\ wk'[w].err = "IntegrityError"
                  /\ wk'[w].evw = {}
                  /\ wk'[w].sn = << >>]_vars

\* A cycle that had added snapshots ended at its commit with IntegrityError,
\* and the Event it had inserted is not in the table.
C5_Witness ==
    \E w \in Workers :
        /\ wk[w].pc = "raised"
        /\ wk[w].err = "IntegrityError"
        /\ wk[w].at = "commit"
        /\ wk[w].batch = 2
        /\ wk[w].inserted = 2
        /\ <<"theoddsapi", "e2">> \notin EventIds

\* C6 (as stated): no cycle has failed with the Sportsbook rows it created
\* committed.
C6_SingleTransaction ==
    \A w \in Workers :
        wk[w].pc = "raised" => wk[w].created \cap sportsbooks = {}


\* The Event row carries the descriptive values of the payload.
Describes(row, payload) ==
    /\ row.provider = payload.provider
    /\ row.provider_event_id = payload.event.id
    /\ row.sport_key = payload.sport_key
    /\ row.home_team = payload.event.home_team
    /\ row.away_team = payload.event.away_team
    /\ row.league = payload.event.sport_title
    /\ row.raw = payload.event
    /\ row.commence_time = parse_datetime(payload.event.commence_time)

\* The payloads of batch b that are the last of the batch for their event.
LastSightings(b) ==
    {Batch(b)[i] : i \in {k \in DOMAIN Batch(b) :
        \A m \in DOMAIN Batch(b) :
            (m > k) => Batch(b)[m].event.id # Batch(b)[k].event.id}}

\* C16: under serialized cycles there is at most one Event row per
\* (provider, provider_event_id), no step removes an Event row, and when a
\* cycle has committed, the row of every event sighted in its batch has the
\* teams, sport key, league, raw payload and commence time of the last
\* payload of the batch for that event.
C16_EventUpsert ==
    /\ [](\A a, b \in events :
              (a.provider = b.provider /\ a.provider_event_id = b.provider_event_id)
                  => a = b)
    /\ [][\A a \in events : \E b \in events' :
              a.provider = b.provider /\ a.provider_event_id = b.provider_event_id]_vars
    /\ [](\A w \in Workers :
              (wk[w].pc = "done" /\ wk[w].at = "commit") =>
                  \A payload \in LastSightings(wk[w].batch) :
                      \E row \in events : Describes(row, payload))

\* Batch 4 was committed after batch 1: the Event inserted by the first
\* cycle carries the payload of the second.
C16_Witness ==
    /\ wk["w1"].pc = "done"
    /\ wk["w1"].batch = 4
    /\ wk["w1"].prev # None
    /\ The(wk["w1"].prev).batch = 1
    /\ Cardinality(events) = 1
    /\ \E row \in events : row.raw = Batch(4)[1].event

\* The bookmaker entry worker w is at has no market with key h2h.
MarketlessEntry(w) ==
    /\ wk[w].pc = "book"
    /\ LET markets == CurrentEntries(wk[w])[wk[w].j].markets
       IN  \A k \in DOMAIN markets : markets[k].key # "h2h"

\* C22: the step over a bookmaker entry without an h2h market adds no
\* snapshot, counts no duplicate, raises nothing and leaves the session's
\* writes, the tables and the clock as they were; and a batch ingested right
\* after the same batch without its market-less entry (or the other way
\* round) finds every snapshot already inserted: the two insert the same
\* snapshots.
C22_MissingMarket ==
    /\ [][\A w \in Workers :
              (MarketlessEntry(w) /\ wk'[w] # wk[w])
                  => /\ wk'[w].sn = wk[w].sn
                     /\ wk'[w].evw = wk[w].evw
                     /\ wk'[w].nfl = wk[w].nfl
                     /\ wk'[w].inserted = wk[w].inserted
                     /\ wk'[w].skipped = wk[w].skipped
                     /\ wk'[w].pc # "raised"
                     /\ wk'[w].err = ""
                     /\ snapshots' = snapshots
                     /\ events' = events
                     /\ clock' = clock]_vars
    /\ [](\A w \in Workers :
              LET r == wk[w] IN
              (r.pc = "done" /\ r.prev # None /\ {r.batch, The(r.prev).batch} = {4, 8})
                  => /\ r.inserted = 0
                     /\ r.skipped = The(r.prev).inserted + The(r.prev).skipped
                     /\ snapshots = The(r.prev).snapshots)

\* Batch 4 was committed under the allow-list {dk, fd}: fd's quote of minute
\* 2 is stored, and nothing of dk, whose entry has no h2h market; the batch
\* without dk's entry, ingested next, found fd's snapshot and inserted none.
C22_Witness ==
    /\ bookmakers = {"dk", "fd"}
    /\ wk["w1"].pc = "done"
    /\ wk["w1"].batch = 8
    /\ wk["w1"].skipped = 1
    /\ wk["w1"].prev # None
    /\ The(wk["w1"].prev).batch = 4
    /\ The(wk["w1"].prev).inserted = 1
    /\ \E row \in snapshots : row.sportsbook_id = "fd" /\ row.fetched_at = 2
    /\ ~ \E row \in snapshots : row.sportsbook_id = "dk" /\ row.fetched_at = 2

\* The bookmaker entry has an h2h market and a last_update that parses.
Quoted(entry) ==
    /\ \E k \in DOMAIN entry.markets : entry.markets[k].key = "h2h"
    /\ parse_datetime(entry.last_update) # None

\* C23 (as stated): under a non-empty allow-list every snapshot a step
\* commits is of a bookmaker in the list; and when a cycle has committed with
\* no allow-list configured, every bookmaker entry of its batch that has an
\* h2h market and a fetch time has a stored snapshot for its key, whether
\* the bookmaker was seen before or not.
C23_AllowList ==
    /\ [][\A row \in snapshots' \ snapshots :
              bookmakers # {} => row.sportsbook_id \in bookmakers]_vars
    /\ [](\A w \in Workers :
              (wk[w].pc = "done" /\ wk[w].at = "commit" /\ bookmakers = {}) =>
                  \A payload \in Range(Batch(wk[w].batch)) :
                      \A entry \in Range(payload.event.bookmakers) :
                          Quoted(entry) =>
                              \E row \in snapshots :
                                  /\ row.event_id = EventId(payload.provider, payload.event)
                                  /\ row.sportsbook_id = entry.key
                                  /\ row.provider = payload.provider
                                  /\ row.fetched_at = The(parse_datetime(entry.last_update)))

\* The bookmaker entry worker w is at passes the filters of lines 72-82 and
\* has no last_update or one that does not parse.
UndatedEntry(w) ==
    LET r == wk[w] IN
    /\ r.pc = "book"
    /\ LET bookmaker == CurrentEntries(r)[r.j]
       IN  /\ bookmakers = {} \/ bookmaker.key \in bookmakers
           /\ bookmaker.key \in r.lookup
           /\ \E k \in DOMAIN bookmaker.markets : bookmaker.markets[k].key = "h2h"
           /\ \/ bookmaker.last_update = None
              \/ ~ The(bookmaker.last_update).iso

\* C27: the step over a bookmaker entry whose last_update is missing or does
\* not parse never counts a duplicate: it adds one snapshot stamped with the
\* clock's reading, whatever is stored; and a batch with two such entries,
\* ingested right after itself, inserts two more rows and skips none.
C27_UndatedEntry ==
    /\ [][\A w \in Workers :
              (UndatedEntry(w) /\ wk'[w] # wk[w])
                  => /\ wk'[w].skipped = wk[w].skipped
                     /\ wk'[w].inserted = wk[w].inserted + 1
                     /\ Len(wk'[w].sn) = Len(wk[w].sn) + 1
                     /\ wk'[w].sn[Len(wk'[w].sn)].fetched_at = 3 + clock
                     /\ wk'[w].sn[Len(wk'[w].sn)].sportsbook_id
                            = CurrentEntries(wk[w])[wk[w].j].key
                     /\ clock' > clock]_vars
    /\ [](\A w \in Workers :
              LET r == wk[w] IN
              (r.pc = "done" /\ r.batch = 7 /\ r.prev # None /\ The(r.prev).batch = 7
                    /\ "dk" \in SportsbookKeys /\ "dk" \in bookmakers \cup
                           (IF bookmakers = {} THEN {"dk"} ELSE {}))
                  => /\ r.inserted = 2
                     /\ r.skipped = 0
                     /\ Cardinality(snapshots) = Cardinality(The(r.prev).snapshots) + 2)

\* Batch 7 was ingested twice in a row: four rows of event e2 are stored,
\* each with its own stamp.
C27_Witness ==
    /\ wk["w1"].pc = "done"
    /\ wk["w1"].batch = 7
    /\ wk["w1"].inserted = 2
    /\ wk["w1"].skipped = 0
    /\ wk["w1"].prev # None
    /\ The(wk["w1"].prev).batch = 7
    /\ The(wk["w1"].prev).inserted = 2
    /\ Cardinality({row.fetched_at : row \in
                        {x \in snapshots : x.event_id = <<"theoddsapi", "e2">>}}) = 4

\* The snapshot keys worker w has added in its cycle, having found no row
\* for them in its dedup check.
AddedKeys(w) == {SnapshotKey(x) : x \in Range(wk[w].sn)}

\* Worker w has added a key that another cycle has committed since.
Overtaken(w) == Running(wk[w]) /\ AddedKeys(w) \cap SnapshotKeys # {}

\* C26: no committed state holds two snapshots with the same key; and a
\* cycle that added a key which an overlapping cycle has committed in the
\* meantime never commits: it ends with IntegrityError, and the step that
\* ends it leaves the committed events and snapshots as they are and keeps
\* none of the cycle's Event and OddsSnapshot writes.
C26_OverlappingCycles ==
    /\ [](\A a, b \in snapshots : SnapshotKey(a) = SnapshotKey(b) => a = b)
    /\ [][\A w \in Workers :
              Overtaken(w)
                  => /\ wk'[w].pc # "done"
                     /\ wk'[w].pc = "raised"
                            => /\ wk'[w].err = "IntegrityError"
                               /\ wk'[w].evw = {}
                               /\ wk'[w].sn = << >>
                               /\ events' = events
                               /\ snapshots' = snapshots]_vars

\* Both workers ingested batch 1 and each passed the dedup check for fd's
\* key: one committed it, the other ended with IntegrityError.
C26_Witness ==
    \E w, v \in Workers :
        /\ wk[w].pc = "raised" /\ wk[w].err = "IntegrityError"
        /\ wk[w].batch = 1 /\ wk[w].inserted = 1 /\ wk[w].skipped = 1
        /\ wk[v].pc = "done"
        /\ wk[v].batch = 1 /\ wk[v].inserted = 1 /\ wk[v].skipped = 1
        /\ Cardinality(snapshots) = 2

(***************************************************************************)
(* Claims about the odds gateway.                                          *)
(***************************************************************************)

\* What a provider that does not fail returns: the payloads of every sport,
\* in the order of the sports.
RECURSIVE ProviderPayloads(_, _, _)
ProviderPayloads(provider, sports, n) ==
    IF n = 0 THEN << >>
    ELSE ProviderPayloads(provider, sports, n - 1) \o SportPayloads(provider, sports[n])

\* The payloads of the first n providers that did not fail, in the order of
\* the providers.
RECURSIVE SurvivorPayloads(_, _)
SurvivorPayloads(f, n) ==
    IF n = 0 THEN << >>
    ELSE SurvivorPayloads(f, n - 1) \o
             (IF n \in f.failed THEN << >>
              ELSE ProviderPayloads(f.providers[n], f.sports, Len(f.sports)))

\* C7: the fetch never ends in an exception, and what it holds after each
\* provider, and returns at the end, is the concatenation in provider order
\* of the payloads of the providers that did not fail, with nothing of a
\* provider that failed.
C7_FailureIsolation ==
    /\ fetch.pc \in {"idle", "skipped", "request", "done"}
    /\ fetch.pc = "request" => fetch.aggregated = SurvivorPayloads(fetch, fetch.p - 1)
    /\ fetch.pc = "done" =>
           fetch.aggregated = SurvivorPayloads(fetch, Len(fetch.providers))

\* A fetch over three providers and two sports returned with the second
\* provider failed and the others' payloads collected.
C7_Witness ==
    /\ fetch.pc = "done"
    /\ Len(fetch.providers) = 3
    /\ Len(fetch.sports) = 2
    /\ fetch.failed = {2}
    /\ Len(fetch.aggregated) = 8

\* C8: no request is attempted more than 3 times; an attempt that succeeds
\* hands its response's events on; an attempt that fails is followed by the
\* next attempt of the same request if it was the first or second, and by
\* the provider's failure with no further attempt if it was the third; and
\* every fetch comes to its end.
C8_BoundedRetries ==
    /\ [](fetch.attempt <= 3)
    /\ [][(fetch.pc = "request" /\ fetch' # fetch) =>
              LET provider == fetch.providers[fetch.p]
                  sport    == fetch.sports[fetch.s]
                  response == SportPayloads(provider, sport)
              IN  /\ fetch'.outcome = "ok" =>
                         IF fetch.s < Len(fetch.sports)
                         THEN /\ fetch'.results = fetch.results \o response
                              /\ fetch'.p = fetch.p /\ fetch'.s = fetch.s + 1
                         ELSE fetch'.aggregated =
                                  fetch.aggregated \o fetch.results \o response
                  /\ (fetch'.outcome = "error" /\ fetch.attempt < 3) =>
                         /\ fetch'.pc = "request"
                         /\ fetch'.p = fetch.p /\ fetch'.s = fetch.s
                         /\ fetch'.attempt = fetch.attempt + 1
                  /\ (fetch'.outcome = "error" /\ fetch.attempt = 3) =>
                         /\ fetch.p \in fetch'.failed
                         /\ fetch'.pc = "request" => fetch'.p > fetch.p]_vars
    /\ <>(fetch.pc \in {"done", "skipped"})

\* A fetch came to its end after the third attempt of a request failed.
C8_Witness ==
    /\ fetch.pc = "done"
    /\ fetch.outcome = "error"
    /\ Len(fetch.providers) \in fetch.failed


(***************************************************************************)
(* Claims about the pipeline.                                              *)
(***************************************************************************)

\* The run about to start has no sports configured, or provider names of
\* which none is registered.
ConfigurationError ==
    /\ fetch.pc = "idle"
    /\ \/ fetch.sports = << >>
       \/ \A k \in DOMAIN fetch.providers : fetch.providers[k] \notin Registered

\* C24: a run of run_ingest_cycle with no sports configured, or with no
\* provider name that can be loaded, ends at once without raising: it makes
\* no request to a provider and leaves table sportsbooks, events and
\* odds_snapshots and every session as they are; and nothing of the run
\* follows.
C24_ConfigurationErrors ==
    /\ [][ConfigurationError
              => /\ fetch' = [fetch EXCEPT !.pc = "skipped"]
                 /\ fetch.attempt = 0 /\ fetch.aggregated = << >>
                 /\ <<bookmakers, sportsbooks, events, snapshots, wk, clock, cycles, last>>'
                        = <<bookmakers, sportsbooks, events, snapshots, wk, clock, cycles,
                            last>>]_vars
    /\ [][fetch.pc = "skipped"
              => /\ fetch'.pc = "idle"
                 /\ <<bookmakers, sportsbooks, events, snapshots, wk, clock, cycles, last>>'
                        = <<bookmakers, sportsbooks, events, snapshots, wk, clock, cycles,
                            last>>]_vars

\* After a run that stored snapshots, a run configured with a provider name
\* that is not registered was skipped.
C24_Witness ==
    /\ fetch.pc = "skipped"
    /\ fetch.providers = <<"unknown">>
    /\ fetch.sports # << >>
    /\ fetch.attempt = 0
    /\ snapshots # {}
    /\ ~ Running(wk["w1"])

\* The committed row is a qualifying reverse move outside any cooldown: the
\* detector, given the row and the one before it, returns a Recommendation.
QualifyingMove(row) ==
    \E prev \in PrecedingSnapshot(row) :
        detect_reverse_line_move(cfg, recs, StoredSnapshot(row),
                                 Some(StoredSnapshot(prev))) # None

\* C12 (as stated): once no cycle is in progress, every committed snapshot
\* that is a qualifying reverse move outside any cooldown has a stored
\* Recommendation that references it.
C12_PipelineReachesDetector ==
    (\A w \in Workers : ~ Running(wk[w])) =>
        \A row \in snapshots :
            QualifyingMove(row) =>
                \E i \in DOMAIN recs : recs[i].snapshot_id = SnapshotKey(row)


(***************************************************************************)
(* Claims about the probability converter.                                 *)
(***************************************************************************)

\* What the converter returns for each argument.
ConverterTable == [o \in ConverterInputs |-> american_to_implied_probability(o)]

RECURSIVE Residual(_, _, _, _)
\* num * 10^i - den * (the integer the first i digits of ds spell): how far
\* the first i digits are from num/den, in units of 1/(den * 10^i).  Once a
\* prefix is off by more than one unit of its last digit the value is kept.
Residual(ds, num, den, i) ==
    IF i = 0 THEN num
    ELSE LET r == Residual(ds, num, den, i - 1)
         IN  IF r > den \/ r < -den THEN r ELSE 10 * r - den * ds[i]

\* The returned Decimal is exactly the quotient of the formula for price p:
\* 100 / (p + 100) for p > 0 and |p| / (|p| + 100) for p <= 0.
ExactQuotient(ds, p) == Residual(ds, ExactNum(p), ExactDen(p), Len(ds)) = 0

\* The returned Decimal is that quotient rounded to the context's precision:
\* DecimalPrec significant digits, within half a unit of the last one.
RoundedQuotient(ds, p) ==
    LET r == Residual(ds, ExactNum(p), ExactDen(p), Len(ds))
    IN  /\ Len(ds) >= DecimalPrec
        /\ 2 * r <= ExactDen(p)
        /\ -2 * r <= ExactDen(p)
        /\ ExactNum(p) # 0 =>
               Len(ds) = DecimalPrec + LeadingZeros(ExactNum(p), ExactDen(p))

C14_RangeAndMonotone ==
    (conv.called /\ conv.odds # None) =>
        LET p == The(conv.odds) IN
        /\ \E i \in DOMAIN conv.value : conv.value[i] # 0
        /\ RoundedQuotient(conv.value, p)
        /\ p > 0 =>
               \A o \in ConverterInputs :
                   (o # None /\ The(o) > p) => DecimalLess(ConverterTable[o], conv.value)

\* C15 (as stated): the call with a missing price raises nothing, and the
\* value it returns differs from the value returned for every actual price.
C15_MissingPrice ==
    conv.called =>
        /\ ~ conv.raised
        /\ conv.odds # None => ~ DecimalEqual(conv.value, ConverterTable[None])


(***************************************************************************)
(* Claims about the detector's effect on the stored rows.                  *)
(***************************************************************************)
Rows == <<recs, bookmakers, sportsbooks, events, snapshots, bets>>

\* C29: a call of detect_reverse_line_move (the step that takes the caller
\* from no call to a call with its outcome) leaves every stored row as it
\* was: the recommendations table it reads for the cooldown, and every other
\* table; the Recommendation it returns is not in the table.
C29_DetectorReadOnly ==
    [][(call = None /\ call' # None) => UNCHANGED Rows]_vars

\* The detector has returned a Recommendation while the table holds another
\* one, and the table does not hold what it returned at this moment.
C29_Witness ==
    /\ call # None
    /\ result # None
    /\ Len(recs) = 1
    /\ The(result).triggered_at # recs[1].triggered_at


(***************************************************************************)
(* Claims about the resolution interface.                                  *)
(***************************************************************************)
\* The moves of the workflow status: pending -> wagered or dismissed ->
\* settled.
StatusMoves == {<<"pending", "wagered">>, <<"pending", "dismissed">>,
                <<"wagered", "settled">>, <<"dismissed", "settled">>}

\* C25 (as stated): in every step each stored Recommendation keeps its status
\* or makes one move of the workflow (so it is settled only from wagered or
\* dismissed, and a settled one stays settled), a Recommendation that is
\* added is pending, and the Recommendation of a bet that is logged is no
\* longer pending.
C25_StatusWorkflow ==
    [][/\ \A i \in DOMAIN recs :
              \/ recs'[i].status = recs[i].status
              \/ <<recs[i].status, recs'[i].status>> \in StatusMoves
       /\ \A i \in DOMAIN recs' \ DOMAIN recs : recs'[i].status = "pending"
       /\ Len(bets') > Len(bets) =>
              recs'[bets'[Len(bets')].recommendation_id].status # "pending"]_vars

\* The item names a valid outcome and refers to an event that has started.
ExplicitItem(item) ==
    /\ item.outcome # None
    /\ bet_result(lower(The(item.outcome))) # None
    /\ item_event(Database, item) # None
    /\ ~ not_started(Database, item, utcnow(clock))

\* C30 (as stated): a bulk_resolve request of one item that names a valid
\* outcome and refers to an event that has started leaves every
\* Recommendation of that event with exactly that outcome as resolved_result
\* and every Bet of those Recommendations with the same result, whatever
\* scores the item carries.
C30_BulkExplicitOutcome ==
    [][\A item \in BulkItems :
          (ExplicitItem(item) /\ BulkResolve(<<item>>)) =>
              LET outcome == The(bet_result(lower(The(item.outcome))))
                  target  == recommendations_of(recs, The(item_event(Database, item)).id)
              IN  /\ \A i \in target : recs'[i].resolved_result = Some(outcome)
                  /\ \A k \in DOMAIN bets' :
                         bets'[k].recommendation_id \in target =>
                             bets'[k].result = outcome]_vars


\* C28: every step of an ingestion cycle (a step of a worker) keeps every
\* Event with its home_score, away_score and resolved_at, keeps every
\* committed OddsSnapshot row and every Sportsbook row as it is, and leaves
\* the recommendations and bets tables unchanged, also when a resolution
\* was committed while the cycle was running.
C28_PipelineFrame ==
    [][wk' # wk =>
          /\ \A e \in events : \E x \in events' :
                 /\ x.id = e.id
                 /\ x.home_score = e.home_score
                 /\ x.away_score = e.away_score
                 /\ x.resolved_at = e.resolved_at
          /\ snapshots \subseteq snapshots'
          /\ sportsbooks \subseteq sportsbooks'
          /\ recs' = recs
          /\ bets' = bets]_vars

\* A cycle has written an update of an Event from a new payload and not yet
\* committed it, the result columns it read were empty, and a resolution
\* has since stored the scores of that Event; a Recommendation and a Bet
\* are stored.
C28_Witness ==
    \E e \in events : \E u \in wk["w1"].evw :
        /\ u.op = "update"
        /\ u.row.id = e.id
        /\ u.row.raw # e.raw
        /\ u.row.home_score = None
        /\ e.home_score # None
        /\ recs # << >>
        /\ bets # << >>

====
